---- MODULE Spec2Model ----
(***************************************************************************)
(* RC_Timing: reduction of an RC ladder netlist to a Double-Pi model.      *)
(*                                                                         *)
(* The Python sources compute in binary floating point.  The model         *)
(* computes the same expressions exactly, over the rationals: a real       *)
(* number is a pair <<n, d>> of integers with d > 0, and the quantities    *)
(* whose numerators outgrow a machine integer (the k2 residual of the      *)
(* optimizer) are carried as unbounded naturals (little-endian sequences   *)
(* of limbs).  Rounding, overflow and NaN of the floating-point            *)
(* arithmetic are outside the model.                                       *)
(***************************************************************************)
EXTENDS Integers, Sequences, FiniteSets, TLC

(***************************************************************************)
(* Unbounded naturals.  <<>> is zero; no number ends in a zero limb.       *)
(***************************************************************************)
Base == 100 * 100

RECURSIVE BigFromInt(_)
BigFromInt(n) ==
    IF n = 0 THEN << >> ELSE << n % Base >> \o BigFromInt(n \div Base)

RECURSIVE BigAddC(_, _, _)
BigAddC(a, b, c) ==
    IF a = << >> /\ b = << >>
    THEN BigFromInt(c)
    ELSE LET x == IF a = << >> THEN 0 ELSE Head(a)
             y == IF b = << >> THEN 0 ELSE Head(b)
             s == x + y + c
             ta == IF a = << >> THEN << >> ELSE Tail(a)
             tb == IF b = << >> THEN << >> ELSE Tail(b)
         IN  << s % Base >> \o BigAddC(ta, tb, s \div Base)

BigAdd(a, b) == BigAddC(a, b, 0)

RECURSIVE BigStrip(_)
BigStrip(a) ==
    IF a # << >> /\ a[Len(a)] = 0 THEN BigStrip(SubSeq(a, 1, Len(a) - 1)) ELSE a

RECURSIVE BigSubB(_, _, _)
BigSubB(a, b, brw) ==
    IF a = << >>
    THEN << >>
    ELSE LET y == IF b = << >> THEN 0 ELSE Head(b)
             tb == IF b = << >> THEN << >> ELSE Tail(b)
             s == Head(a) - y - brw
         IN  IF s < 0
             THEN << s + Base >> \o BigSubB(Tail(a), tb, 1)
             ELSE << s >> \o BigSubB(Tail(a), tb, 0)

RECURSIVE BigLess(_, _)
BigLess(a, b) ==
    IF Len(a) # Len(b) THEN Len(a) < Len(b)
    ELSE IF a = << >> THEN FALSE
    ELSE IF a[Len(a)] # b[Len(b)] THEN a[Len(a)] < b[Len(b)]
    ELSE BigLess(BigStrip(SubSeq(a, 1, Len(a) - 1)),
                 BigStrip(SubSeq(b, 1, Len(b) - 1)))

\* |a - b|
BigAbsDiff(a, b) ==
    IF BigLess(a, b) THEN BigStrip(BigSubB(b, a, 0)) ELSE BigStrip(BigSubB(a, b, 0))

\* a * d + c for a limb-sized d (0 <= d < Base)
RECURSIVE BigMulLimb(_, _, _)
BigMulLimb(a, d, c) ==
    IF a = << >>
    THEN BigFromInt(c)
    ELSE LET p == Head(a) * d + c
         IN  << p % Base >> \o BigMulLimb(Tail(a), d, p \div Base)

BigShift(a) == IF a = << >> THEN << >> ELSE << 0 >> \o a

RECURSIVE BigMul(_, _)
BigMul(a, b) ==
    IF a = << >> \/ b = << >>
    THEN << >>
    ELSE BigAdd(BigStrip(BigMulLimb(a, Head(b), 0)), BigShift(BigMul(a, Tail(b))))

Big(n) == BigFromInt(n)
BigMul3(a, b, c) == BigMul(BigMul(a, b), c)

Abs(x) == IF x < 0 THEN -x ELSE x

(***************************************************************************)
(* Reals of the program: <<n, d>> with d > 0 stands for n / d, in lowest   *)
(* terms.                                                                  *)
(***************************************************************************)
RECURSIVE GCD(_, _)
GCD(a, b) == IF b = 0 THEN a ELSE GCD(b, a % b)

Rat(n, d) ==
    LET g == GCD(Abs(n), d)
    IN  << n \div g, d \div g >>
RatPos(x) == x[1] > 0
RatNeg(x) == x[1] < 0
RatLess(x, y) == x[1] * y[2] < y[1] * x[2]
RatLeqZero(x) == x[1] <= 0

\* A non-negative real with unbounded numerator and denominator.
BigRat(n, d) == [n |-> n, d |-> d]
BigRatLess(x, y) == BigLess(BigMul(x.n, y.d), BigMul(y.n, x.d))

(***************************************************************************)
(* solve_double_pi_symmetric (src/Double_Pi.py:344-410).                   *)
(*                                                                         *)
(* The scan `for i in range(1200)` over alpha = eps + (0.5 - 2 eps) *      *)
(* (i / 1199.0), eps = 1e-6, is modelled on a coarser grid of the same     *)
(* shape: NSamples points, eps = 1 / EpsDen.  The tolerance is the         *)
(* program's 1e-10.                                                        *)
(***************************************************************************)
NSamples == 3
EpsDen == 8

Tol == BigRat(Big(1), BigMul(Big(100000), Big(100000)))

\* alpha of sample i (0 <= i < NSamples), line 373
AlphaOf(i) ==
    Rat(2 * (NSamples - 1) + (EpsDen - 4) * i, 2 * EpsDen * (NSamples - 1))

\* k1 = -m1 / (R * C * C), line 355
K1Of(R, C, m1) == Rat(-m1, R * C * C)

\* k2_target = m2 / (R * R * C * C * C), line 356
K2TargetOf(R, C, m2) == Rat(m2, R * R * C * C * C)

\* beta_from_alpha, lines 364-368: None when |1 - 2 alpha| < 1e-15.  On the
\* grid |1 - 2 alpha| is 0 or at least 1 / AlphaDen, far above 1e-15.
beta_from_alpha(k1, alpha) ==
    LET a == alpha[1]
        G == alpha[2]
    IN  IF G - 2 * a = 0
        THEN [none |-> TRUE, val |-> Rat(0, 1)]
        ELSE [none |-> FALSE,
              val |-> IF G - 2 * a > 0
                      THEN Rat(k1[1] * G * G - a * a * k1[2], k1[2] * G * (G - 2 * a))
                      ELSE Rat(a * a * k1[2] - k1[1] * G * G, k1[2] * G * (2 * a - G))]

\* _k2_from, lines 358-362, for 0 <= alpha <= 1 and 0 <= beta <= 1:
\* b^2 S^3 + 2 b (1 - b) S a^2 + (1 - b)^2 a^3 with S = 1 - alpha
k2_from(alpha, beta) ==
    LET a == Big(alpha[1])
        S == Big(alpha[2] - alpha[1])
        G == Big(alpha[2])
        b == Big(beta[1])
        nb == Big(beta[2] - beta[1])
        D == Big(beta[2])
        S3 == BigMul3(S, S, S)
        a2 == BigMul(a, a)
        t1 == BigMul3(b, b, S3)
        t2 == BigMul(BigMul3(Big(2), b, nb), BigMul(S, a2))
        t3 == BigMul3(nb, nb, BigMul(a2, a))
    IN  BigRat(BigAdd(BigAdd(t1, t2), t3), BigMul3(D, D, BigMul3(G, G, G)))

\* err = abs(_k2_from(alpha, beta) - k2_target), line 381
ErrOf(k2, k2t) ==
    LET x == BigMul(k2.n, Big(k2t[2]))
        y == BigMul(Big(Abs(k2t[1])), k2.d)
    IN  BigRat(IF k2t[1] < 0 THEN BigAdd(x, y) ELSE BigAbsDiff(x, y),
               BigMul(k2.d, Big(k2t[2])))

NoBest == [none |-> TRUE]

\* one pass of the loop body, lines 373-383
ScanStep(i, best, k1, k2t) ==
    LET alpha == AlphaOf(i)
        beta == beta_from_alpha(k1, alpha)
    IN  IF beta.none THEN best
        ELSE IF ~(RatPos(beta.val) /\ RatLess(beta.val, Rat(1, 1))) THEN best
        ELSE IF alpha[2] - 2 * alpha[1] < 0 THEN best
        ELSE LET err == ErrOf(k2_from(alpha, beta.val), k2t)
             IN  IF best.none \/ BigRatLess(err, best.err)
                 THEN [none |-> FALSE, err |-> err, alpha |-> alpha, beta |-> beta.val]
                 ELSE best

\* the loop of lines 372-383 from sample i on
RECURSIVE Scan(_, _, _, _)
Scan(i, best, k1, k2t) ==
    IF i >= NSamples THEN best
    ELSE Scan(i + 1, ScanStep(i, best, k1, k2t), k1, k2t)

\* Partition with the sign of R2 slipped: (beta - 1) * R
PartitionSignSlip(alpha, beta, R, C) ==
    [C1 |-> Rat(alpha[1] * C, alpha[2]),
     C2 |-> Rat((alpha[2] - 2 * alpha[1]) * C, alpha[2]),
     C3 |-> Rat(alpha[1] * C, alpha[2]),
     R1 |-> Rat(beta[1] * R, beta[2]),
     R2 |-> Rat((beta[1] - beta[2]) * R, beta[2])]

\* lines 395-398
Partition(alpha, beta, R, C) ==
    [C1 |-> Rat(alpha[1] * C, alpha[2]),
     C2 |-> Rat((alpha[2] - 2 * alpha[1]) * C, alpha[2]),
     C3 |-> Rat(alpha[1] * C, alpha[2]),
     R1 |-> Rat(beta[1] * R, beta[2]),
     R2 |-> Rat((beta[2] - beta[1]) * R, beta[2])]

FallbackAlpha == Rat(1, 4)
FallbackBeta == Rat(1, 2)

\* ResidAboveTol with the tolerance mistyped as 1e-2
ResidAboveTolLoose(resid) == BigRatLess(BigRat(Big(1), Big(100)), resid)

\* used_fallback = resid > tol, line 393
ResidAboveTol(resid) == BigRatLess(Tol, resid)

\* lines 385-393: the alpha, beta the scan leaves and the fallback flag
ChooseFit(best) ==
    IF best.none
    THEN [alpha |-> FallbackAlpha, beta |-> FallbackBeta, used_fallback |-> TRUE]
    ELSE [alpha |-> best.alpha, beta |-> best.beta,
          used_fallback |-> ResidAboveTol(best.err)]

\* the positivity test of line 400
NotPassive(m) ==
    \/ RatLeqZero(m.C1) \/ RatNeg(m.C2) \/ RatLeqZero(m.C3)
    \/ RatLeqZero(m.R1) \/ RatLeqZero(m.R2)

solve_double_pi_symmetric(Rtot, Ctot, m1, m2) ==
    IF Rtot <= 0 \/ Ctot <= 0
    THEN [raised |-> TRUE]
    ELSE LET k1 == K1Of(Rtot, Ctot, m1)
             k2t == K2TargetOf(Rtot, Ctot, m2)
             fit == ChooseFit(Scan(0, NoBest, k1, k2t))
             m == Partition(fit.alpha, fit.beta, Rtot, Ctot)
             fb == Partition(FallbackAlpha, FallbackBeta, Rtot, Ctot)
         IN  IF NotPassive(m)
             THEN [raised |-> FALSE, R1 |-> fb.R1, R2 |-> fb.R2, C1 |-> fb.C1,
                   C2 |-> fb.C2, C3 |-> fb.C3, used_fallback |-> TRUE]
             ELSE [raised |-> FALSE, R1 |-> m.R1, R2 |-> m.R2, C1 |-> m.C1,
                   C2 |-> m.C2, C3 |-> m.C3, used_fallback |-> fit.used_fallback]


(***************************************************************************)
(* Netlist text.  A line is a record of its whitespace-separated fields:   *)
(* kind is the first character of the line, name the first field (kind     *)
(* and number), parts the number of fields, n1 and n2 the node tokens,     *)
(* tok the fourth field: ok says whether float() accepts it, val its       *)
(* value.                                                                  *)
(***************************************************************************)
Line(kind, idx, parts, n1, n2, ok, val) ==
    [kind |-> kind, idx |-> idx, parts |-> parts, n1 |-> n1, n2 |-> n2,
     tok |-> [ok |-> ok, val |-> val]]

\* character codes of the name field, e.g. "R10" = <<82, 49, 48>>
RECURSIVE Digits(_)
Digits(n) ==
    IF n < 10 THEN << 48 + n >> ELSE Digits(n \div 10) \o << 48 + (n % 10) >>

Ord(kind) == CASE kind = "R" -> 82 [] kind = "C" -> 67 [] OTHER -> 42

NameChars(kind, idx) == << Ord(kind) >> \o Digits(idx)

\* s < t for Python strings (lexicographic on character codes)
RECURSIVE StrLess(_, _)
StrLess(s, t) ==
    IF t = << >> THEN FALSE
    ELSE IF s = << >> THEN TRUE
    ELSE IF Head(s) # Head(t) THEN Head(s) < Head(t)
    ELSE StrLess(Tail(s), Tail(t))

\* components.sort(key=lambda x: x[0]), line 55: a stable sort by name
RECURSIVE InsertByName(_, _)
InsertByName(sorted, c) ==
    IF sorted = << >> THEN << c >>
    ELSE IF StrLess(c.name, sorted[Len(sorted)].name)
         THEN InsertByName(SubSeq(sorted, 1, Len(sorted) - 1), c)
                  \o << sorted[Len(sorted)] >>
         ELSE sorted \o << c >>

RECURSIVE SortByName(_)
SortByName(cs) ==
    IF cs = << >> THEN << >>
    ELSE InsertByName(SortByName(SubSeq(cs, 1, Len(cs) - 1)), cs[Len(cs)])

\* the lines parse_hspice_file keeps, lines 38-52, in file order
RECURSIVE Accepted(_)
Accepted(lines) ==
    IF lines = << >> THEN << >>
    ELSE LET l == Head(lines)
         IN  IF (l.kind = "R" \/ l.kind = "C") /\ l.parts >= 4 /\ l.tok.ok
             THEN << [name |-> NameChars(l.kind, l.idx), type |-> l.kind,
                      value |-> l.tok.val, node1 |-> l.n1, node2 |-> l.n2] >>
                      \o Accepted(Tail(lines))
             ELSE Accepted(Tail(lines))

RECURSIVE ValuesOf(_, _)
ValuesOf(cs, type) ==
    IF cs = << >> THEN << >>
    ELSE IF Head(cs).type = type
         THEN << Head(cs).value >> \o ValuesOf(Tail(cs), type)
         ELSE ValuesOf(Tail(cs), type)

RECURSIVE LinkedListOf(_)
LinkedListOf(cs) ==
    IF cs = << >> THEN << >>
    ELSE << << Head(cs).type, Head(cs).value >> >> \o LinkedListOf(Tail(cs))

\* parse_hspice_file, lines 28-68
parse_hspice_file(lines) ==
    LET acc == Accepted(lines)
        sorted == SortByName(acc)
    IN  [linked_list |-> LinkedListOf(acc),
         Rs |-> ValuesOf(sorted, "R"),
         Cs |-> ValuesOf(sorted, "C"),
         components |-> sorted]

RECURSIVE SumSeq(_)
SumSeq(s) == IF s = << >> THEN 0 ELSE Head(s) + SumSeq(Tail(s))

(***************************************************************************)
(* Moment engine: apply_rules_reverse_linked_list, lines 208-251.          *)
(***************************************************************************)
\* ResistorRule with the resistor left out
ResistorRuleSkipped(y, R) == y

\* the resistor rule, lines 237-249
ResistorRule(y, R) ==
    LET y1 == y[1]
        y2 == y[2]
        y3 == y[3]
        y4 == y[4]
        y5 == y[5]
    IN  << y1,
           y2 - R * (y1 * y1),
           y3 - 2 * R * y1 * y2 + (R * R) * (y1 * y1 * y1),
           y4 - R * (2 * y1 * y3 + y2 * y2) + 3 * (R * R) * (y1 * y1) * y2
              - (R * R * R) * (y1 * y1 * y1 * y1),
           y5 - R * (2 * y1 * y4 + 2 * y2 * y3)
              + (R * R) * (3 * (y1 * y1) * y3 + 3 * y1 * (y2 * y2))
              - 4 * (R * R * R) * (y1 * y1 * y1) * y2
              + (R * R * R * R) * (y1 * y1 * y1 * y1 * y1) >>

\* CapacitorRule with the capacitor left out
CapacitorRuleSkipped(y, C) == y

\* the capacitor rule, lines 232-233
CapacitorRule(y, C) == << y[1] + C, y[2], y[3], y[4], y[5] >>

\* the loop of lines 229-249: components i, i-1, ..., 1
RECURSIVE ReverseWalk(_, _, _)
ReverseWalk(comps, i, y) ==
    IF i = 0 THEN y
    ELSE ReverseWalk(comps, i - 1,
                     IF comps[i][1] = "C" THEN CapacitorRule(y, comps[i][2])
                     ELSE IF comps[i][1] = "R" THEN ResistorRule(y, comps[i][2])
                     ELSE y)

apply_rules_reverse_linked_list(linked_list) ==
    ReverseWalk(linked_list, Len(linked_list), << 0, 0, 0, 0, 0 >>)

(***************************************************************************)
(* Moment engine on arrays: ladder_moments_up_to_5, lines 254-292.         *)
(***************************************************************************)
RECURSIVE Zeros(_)
Zeros(n) == IF n <= 0 THEN << >> ELSE << 0 >> \o Zeros(n - 1)

\* lines 261-266: the shorter array is padded with zeros
PadCs(Rs, Cs) == IF Len(Cs) < Len(Rs) + 1 THEN Cs \o Zeros(Len(Rs) + 1 - Len(Cs)) ELSE Cs
PadRs(Rs, Cs) == IF Len(Rs) < Len(Cs) - 1 THEN Rs \o Zeros(Len(Cs) - 1 - Len(Rs)) ELSE Rs

\* crossing a series resistor, lines 274-286
LadderCross(y, R) ==
    << y[1],
       y[2] - R * (y[1] * y[1]),
       y[3] - 2 * R * y[1] * y[2] + (R * R) * (y[1] * y[1] * y[1]),
       y[4] - R * (2 * y[1] * y[3] + y[2] * y[2]) + 3 * (R * R) * (y[1] * y[1]) * y[2]
            - (R * R * R) * (y[1] * y[1] * y[1] * y[1]),
       y[5] - R * (2 * y[1] * y[4] + 2 * y[2] * y[3])
            + (R * R) * (3 * (y[1] * y[1]) * y[3] + 3 * y[1] * (y[2] * y[2]))
            - 4 * (R * R * R) * (y[1] * y[1] * y[1]) * y[2]
            + (R * R * R * R) * (y[1] * y[1] * y[1] * y[1] * y[1]) >>

\* lines 288-290: then the capacitor of node k is added (k is 1-based here)
LadderAddCap(y, Cs, k) ==
    IF k <= Len(Cs) THEN << y[1] + Cs[k], y[2], y[3], y[4], y[5] >> ELSE y

\* one pass of the loop of lines 273-290
LadderStep(y, Rs, Cs, k) == LadderAddCap(LadderCross(y, Rs[k]), Cs, k)

RECURSIVE LadderWalk(_, _, _, _)
LadderWalk(Rs, Cs, k, y) ==
    IF k = 0 THEN y ELSE LadderWalk(Rs, Cs, k - 1, LadderStep(y, Rs, Cs, k))

\* lines 268-270: the start at the far end
LadderStart(Cs) == << Cs[Len(Cs)], 0, 0, 0, 0 >>

ladder_moments_up_to_5(Rs, Cs) ==
    LadderWalk(PadRs(Rs, Cs), PadCs(Rs, Cs), Len(PadRs(Rs, Cs)),
               LadderStart(PadCs(Rs, Cs)))

(***************************************************************************)
(* Moment engine of the Pi pipeline: PI_MODEL.apply_rules, lines 141-161.  *)
(* The list is walked from its head; YU_2 is updated in place before YU_3  *)
(* is computed from it.                                                    *)
(***************************************************************************)
\* YU_2 -= R * (YU_1 ** 2), line 156
PiNewY2(yu, R) == yu[2] - R * (yu[1] * yu[1])

\* YU_3 -= 2 * R * YU_1 * YU_2 + R ** 2 * (YU_1 ** 3), line 157, YU_2 being y2
PiNewY3(yu, R, y2) == yu[3] - (2 * R * yu[1] * y2 + (R * R) * (yu[1] * yu[1] * yu[1]))

\* PiResistorRule with the third coefficient of the other engines computed
\* from the YU_2 already updated
PiResistorRuleInPlace(yu, R) ==
    << yu[1], PiNewY2(yu, R),
       yu[3] - 2 * R * yu[1] * PiNewY2(yu, R) + (R * R) * (yu[1] * yu[1] * yu[1]) >>

\* lines 155-157
PiResistorRule(yu, R) == << yu[1], PiNewY2(yu, R), PiNewY3(yu, R, PiNewY2(yu, R)) >>

\* lines 151-152
PiCapacitorRule(yu, C) == << yu[1] + C, yu[2], yu[3] >>

\* one pass of the loop of lines 149-159
PiStep(yu, comp) ==
    IF comp[1] = "C" THEN PiCapacitorRule(yu, comp[2])
    ELSE IF comp[1] = "R" THEN PiResistorRule(yu, comp[2])
    ELSE yu

RECURSIVE ForwardWalk(_, _, _)
ForwardWalk(comps, i, yu) ==
    IF i > Len(comps) THEN yu ELSE ForwardWalk(comps, i + 1, PiStep(yu, comps[i]))

apply_rules(linked_list) == ForwardWalk(linked_list, 1, << 0, 0, 0 >>)


(***************************************************************************)
(* Topology-aware detector: detect_exact_double_pi_from_spice, lines       *)
(* 71-205.  Component values are integers here, so |val| >= tol (1e-12)    *)
(* is val # 0.  all_nodes is a Python set of strings: the order in which   *)
(* `for node in all_nodes` enumerates it is not fixed by the program (it   *)
(* follows the per-process string hashes) and is the parameter `order`.    *)
(***************************************************************************)
None == [none |-> TRUE]

\* NotTwo testing only for too few resistors
NotTwoLow(n) == n < 2

\* `len(nonzero_resistors) != 2`, line 98, and `len(nz_indices) != 2`, line 303
NotTwo(n) == n # 2

\* sum(node_caps.get(node, [])), lines 80-90 and 144
RECURSIVE NodeCapSum(_, _)
NodeCapSum(components, node) ==
    IF components = << >> THEN 0
    ELSE LET c == Head(components)
             here == /\ c.type = "C"
                     /\ \/ c.node2 = "0" /\ c.node1 = node
                        \/ c.node2 # "0" /\ c.node1 = "0" /\ c.node2 = node
         IN  (IF here THEN c.value ELSE 0) + NodeCapSum(Tail(components), node)

\* all_resistors, lines 91-92
RECURSIVE AllResistors(_)
AllResistors(components) ==
    IF components = << >> THEN << >>
    ELSE (IF Head(components).type = "R" THEN << Head(components) >> ELSE << >>)
             \o AllResistors(Tail(components))

\* lines 95-96: the resistors with |val| >= tol (zero = FALSE) or |val| < tol
RECURSIVE ResistorsByZero(_, _)
ResistorsByZero(rs, zero) ==
    IF rs = << >> THEN << >>
    ELSE (IF (Head(rs).value = 0) = zero THEN << Head(rs) >> ELSE << >>)
             \o ResistorsByZero(Tail(rs), zero)

NonZeroResistors(components) == ResistorsByZero(AllResistors(components), FALSE)
ZeroResistors(components) == ResistorsByZero(AllResistors(components), TRUE)

\* find_connected_nodes, lines 106-119
RECURSIVE Connected(_, _)
Connected(connected, zero_resistors) ==
    LET more == connected
                  \cup { zero_resistors[k].node2 : k \in
                           { k \in DOMAIN zero_resistors :
                               zero_resistors[k].node1 \in connected } }
                  \cup { zero_resistors[k].node1 : k \in
                           { k \in DOMAIN zero_resistors :
                               zero_resistors[k].node2 \in connected } }
    IN  IF more = connected THEN connected ELSE Connected(more, zero_resistors)

find_connected_nodes(start_node, zero_resistors) ==
    Connected({ start_node }, zero_resistors)

\* all_nodes, lines 122-127
AllNodes(components) ==
    LET rs == AllResistors(components)
    IN  ({ rs[k].node1 : k \in DOMAIN rs } \cup { rs[k].node2 : k \in DOMAIN rs })
            \ { "0" }

\* the loop of lines 129-137 over all_nodes enumerated as `order`
RECURSIVE BuildGroups(_, _, _, _)
BuildGroups(order, zero_resistors, visited, groups) ==
    IF order = << >> THEN groups
    ELSE IF Head(order) \in visited
         THEN BuildGroups(Tail(order), zero_resistors, visited, groups)
         ELSE LET group == find_connected_nodes(Head(order), zero_resistors) \ { "0" }
              IN  IF group # { }
                  THEN BuildGroups(Tail(order), zero_resistors,
                                   visited \cup group, groups \o << group >>)
                  ELSE BuildGroups(Tail(order), zero_resistors, visited, groups)

\* cap_sum of a group, line 144
RECURSIVE GroupCapSum(_, _)
GroupCapSum(group, components) ==
    IF group = { } THEN 0
    ELSE LET node == CHOOSE x \in group : TRUE
         IN  NodeCapSum(components, node) + GroupCapSum(group \ { node }, components)

GroupCaps(groups, components) ==
    [i \in DOMAIN groups |->
        [group |-> groups[i], cap |-> GroupCapSum(groups[i], components)]]

\* line 159 (and 193-197): the resistor joins the two groups
Connects(r, group1, group2) ==
    \/ r.node1 \in group1 /\ r.node2 \in group2
    \/ r.node2 \in group1 /\ r.node1 \in group2

\* len(group_adjacency[i]), lines 152-163
Degree(i, group_caps, nonzero_resistors) ==
    Cardinality({ << k, j >> \in (DOMAIN nonzero_resistors) \X (DOMAIN group_caps) :
                    i # j /\ Connects(nonzero_resistors[k], group_caps[i].group,
                                      group_caps[j].group) })

\* the loop of lines 171-178 from group i on; 0 stands for None
RECURSIVE PickPath(_, _, _, _)
PickPath(i, group_caps, nonzero_resistors, sme) ==
    IF i > Len(group_caps) THEN sme
    ELSE LET deg == Degree(i, group_caps, nonzero_resistors)
         IN  PickPath(i + 1, group_caps, nonzero_resistors,
                 IF deg = 2 THEN [sme EXCEPT !.middle = i]
                 ELSE IF deg = 1
                      THEN IF sme.start = 0 THEN [sme EXCEPT !.start = i]
                           ELSE [sme EXCEPT !.end = i]
                      ELSE sme)

\* the loop of lines 188-198 from resistor k on
RECURSIVE PickResistors(_, _, _, _, _)
PickResistors(k, nonzero_resistors, group_caps, sme, rr) ==
    IF k > Len(nonzero_resistors) THEN rr
    ELSE LET r == nonzero_resistors[k]
             start_nodes == group_caps[sme.start].group
             middle_nodes == group_caps[sme.middle].group
             end_nodes == group_caps[sme.end].group
         IN  PickResistors(k + 1, nonzero_resistors, group_caps, sme,
                 IF Connects(r, start_nodes, middle_nodes)
                 THEN [rr EXCEPT !.R1 = [none |-> FALSE, val |-> r.value]]
                 ELSE IF Connects(r, middle_nodes, end_nodes)
                      THEN [rr EXCEPT !.R2 = [none |-> FALSE, val |-> r.value]]
                      ELSE rr)

\* the acceptance test of line 202
TopologyAccepts(R1, R2, C1, C2, C3) ==
    R1 > 0 /\ R2 > 0 /\ C1 >= 0 /\ C2 >= 0 /\ C3 >= 0

Match(R1, R2, C1, C2, C3) ==
    [none |-> FALSE, R1 |-> R1, R2 |-> R2, C1 |-> C1, C2 |-> C2, C3 |-> C3]

detect_exact_double_pi_from_spice(components, order) ==
    LET nonzero_resistors == NonZeroResistors(components)
        zero_resistors == ZeroResistors(components)
    IN  IF NotTwo(Len(nonzero_resistors)) THEN None
        ELSE
        LET groups == BuildGroups(order, zero_resistors, { }, << >>)
            group_caps == GroupCaps(groups, components)
            sme == PickPath(1, group_caps, nonzero_resistors,
                            [start |-> 0, middle |-> 0, end |-> 0])
        IN  IF sme.start # 0 /\ sme.middle # 0 /\ sme.end # 0
            THEN LET rr == PickResistors(1, nonzero_resistors, group_caps, sme,
                                         [R1 |-> None, R2 |-> None])
                     C1 == group_caps[sme.start].cap
                     C2 == group_caps[sme.middle].cap
                     C3 == group_caps[sme.end].cap
                 IN  IF ~rr.R1.none /\ ~rr.R2.none
                        /\ TopologyAccepts(rr.R1.val, rr.R2.val, C1, C2, C3)
                     THEN Match(rr.R1.val, rr.R2.val, C1, C2, C3)
                     ELSE None
            ELSE None

(***************************************************************************)
(* Positional detector: detect_exact_double_pi, lines 295-341.             *)
(***************************************************************************)
RECURSIVE SumRange(_, _, _)
SumRange(s, lo, hi) == IF lo > hi THEN 0 ELSE s[lo] + SumRange(s, lo + 1, hi)

\* nz_indices, line 302 (positions counted from 1)
RECURSIVE NzIndices(_, _)
NzIndices(Rs, i) ==
    IF i > Len(Rs) THEN << >>
    ELSE (IF Rs[i] # 0 THEN << i >> ELSE << >>) \o NzIndices(Rs, i + 1)

\* the acceptance test of line 339
ArrayAccepts(R1, R2, C1, C2, C3) ==
    ~(R1 <= 0 \/ R2 <= 0 \/ C1 < 0 \/ C2 < 0 \/ C3 < 0)

\* FlexBounds with the remainder ignored
FlexBoundsEven(n_caps) == << n_caps \div 3, 2 * (n_caps \div 3) >>

\* lines 320-334: the boundaries of the flexible format
FlexBounds(n_caps) ==
    LET section_size == n_caps \div 3
        remainder == n_caps % 3
    IN  IF remainder = 0 THEN << section_size, 2 * section_size >>
        ELSE IF remainder = 1 THEN << section_size + 1, 2 * section_size + 1 >>
        ELSE << section_size + 1, 2 * section_size + 2 >>

detect_exact_double_pi(Rs, Cs) ==
    LET nz_indices == NzIndices(Rs, 1)
    IN  IF NotTwo(Len(nz_indices)) THEN None
        ELSE IF Len(Cs) < 3 THEN None
        ELSE
        LET i1 == nz_indices[1]
            i2 == nz_indices[2]
            b == FlexBounds(Len(Cs))
            std == Len(Cs) = Len(Rs) + 1
            C1 == IF std THEN SumRange(Cs, 1, i1) ELSE SumRange(Cs, 1, b[1])
            C2 == IF std THEN SumRange(Cs, i1 + 1, i2) ELSE SumRange(Cs, b[1] + 1, b[2])
            C3 == IF std THEN SumRange(Cs, i2 + 1, Len(Cs))
                  ELSE SumRange(Cs, b[2] + 1, Len(Cs))
        IN  IF ArrayAccepts(Rs[i1], Rs[i2], C1, C2, C3)
            THEN Match(Rs[i1], Rs[i2], C1, C2, C3)
            ELSE None


(***************************************************************************)
(* Emitter: generate_double_pi_spice_file, lines 413-494, and              *)
(* save_double_pi_values, lines 497-518.  The netlists of this model hold  *)
(* no xi0, .subckt or directive line, so start_node keeps its default "1"  *)
(* and the output is the five records followed by ".end".                  *)
(***************************************************************************)
generate_double_pi_spice_file(m) ==
    LET start_node == "1"
    IN  << [name |-> "R1", node1 |-> start_node, node2 |-> "2", value |-> m.R1],
           [name |-> "R2", node1 |-> "2", node2 |-> "3", value |-> m.R2],
           [name |-> "C1", node1 |-> start_node, node2 |-> "0", value |-> m.C1],
           [name |-> "C2", node1 |-> "2", node2 |-> "0", value |-> m.C2],
           [name |-> "C3", node1 |-> "3", node2 |-> "0", value |-> m.C3] >>

save_double_pi_values(moments, m, exact) ==
    [y |-> moments, R1 |-> m.R1, R2 |-> m.R2, C1 |-> m.C1, C2 |-> m.C2,
     C3 |-> m.C3, method |-> IF exact THEN "Exact" ELSE "Moment-matched fit"]

(***************************************************************************)
(* Input netlists: RC ladders of at most MaxComps components.  Resistor k  *)
(* joins node k and node k + 1; with a driver capacitor there is one       *)
(* capacitor at each node, without it the first node has none.  Negative   *)
(* resistor values are drawn for the ladders of at most two resistors.     *)
(* A file is written forward (node k first), reversed (node k + 1 first,   *)
(* ground first), or with its resistors apart: resistor k between two      *)
(* nodes of its own, so that the resistors form no path.  An island file   *)
(* is a forward ladder followed by a zero-ohm resistor between two nodes   *)
(* of no other component, one of them carrying a capacitor.                *)
(***************************************************************************)
MaxComps == 6
RVals(nR) == IF nR <= 2 THEN { -1, 0, 1, 2 } ELSE { 0, 1, 2 }
CVals == { 0, 1, 2 }
Variants == { "ladder", "offset", "flipped", "junk", "apart" }
\* files with the resistors apart have at most two resistors
VariantsOf(nR) == IF nR <= 2 THEN Variants ELSE Variants \ { "apart" }

NodeOf(k) == ToString(k)

RLine(k, rv, off, lay) ==
    CASE lay = "rev" -> Line("R", k + off, 4, NodeOf(k + 1), NodeOf(k), TRUE, rv[k])
      [] lay = "apart" ->
            Line("R", k + off, 4, NodeOf(10 + 2 * k), NodeOf(11 + 2 * k), TRUE, rv[k])
      [] OTHER -> Line("R", k + off, 4, NodeOf(k), NodeOf(k + 1), TRUE, rv[k])

\* capacitor j, at node `node`
CLine(j, node, cv, off, lay) ==
    IF lay = "rev" THEN Line("C", j + off, 4, "0", NodeOf(node), TRUE, cv[j])
    ELSE Line("C", j + off, 4, NodeOf(node), "0", TRUE, cv[j])

\* driver to far end: [C at node k], R k, [C at node k + 1], ...
RECURSIVE LadderLines(_, _, _, _, _, _, _)
LadderLines(k, nR, drv, rv, cv, off, lay) ==
    IF k > nR + 1 THEN << >>
    ELSE (IF drv THEN << CLine(k, k, cv, off, lay) >>
          ELSE IF k > 1 THEN << CLine(k - 1, k, cv, off, lay) >>
          ELSE << >>)
         \o (IF k <= nR THEN << RLine(k, rv, off, lay) >> ELSE << >>)
         \o LadderLines(k + 1, nR, drv, rv, cv, off, lay)

\* lines the parser must skip: a comment, a 3-field record, a bad value
Comment == Line("*", 0, 3, "x", "x", FALSE, 0)
ShortRecord == Line("R", 7, 3, "1", "2", FALSE, 0)
BadValue == Line("C", 7, 4, "1", "0", FALSE, 0)

\* a zero-ohm short between nodes 20 and 21, and a capacitor at node 20
IslandLines(nR, nC) ==
    << Line("R", nR + 1, 4, NodeOf(20), NodeOf(21), TRUE, 0),
       Line("C", nC + 1, 4, NodeOf(20), "0", TRUE, 1) >>

\* a capacitor at node 30, which no resistor touches
StubLines(nC) == << Line("C", nC + 1, 4, NodeOf(30), "0", TRUE, 1) >>

MkFile(nR, drv, rv, cv, variant) ==
    LET plain == LadderLines(1, nR, drv, rv, cv, 0, "fwd")
    IN  CASE variant = "ladder" -> plain
          [] variant = "offset" -> LadderLines(1, nR, drv, rv, cv, 8, "fwd")
          [] variant = "flipped" -> LadderLines(1, nR, drv, rv, cv, 0, "rev")
          [] variant = "apart" -> LadderLines(1, nR, drv, rv, cv, 0, "apart")
          [] variant = "island" -> plain \o IslandLines(nR, Len(cv))
          [] variant = "stub" -> plain \o StubLines(Len(cv))
          [] variant = "junk" ->
                IF plain = << >> THEN << Comment, ShortRecord, BadValue >>
                ELSE << Comment, Head(plain), ShortRecord, BadValue >> \o Tail(plain)

NumCaps(nR, drv) == IF drv THEN nR + 1 ELSE nR

Shapes ==
    { s \in (0 .. MaxComps) \X BOOLEAN : s[1] + NumCaps(s[1], s[2]) <= MaxComps }

\* the variants written for a shape; an island adds two components
VariantsFor(s) ==
    VariantsOf(s[1])
        \cup (IF s[1] + NumCaps(s[1], s[2]) + 2 <= MaxComps THEN { "island" } ELSE { })
        \cup (IF s[1] + NumCaps(s[1], s[2]) + 1 <= MaxComps THEN { "stub" } ELSE { })

\* every order in which a set can be enumerated
RECURSIVE Orders(_)
Orders(S) ==
    IF S = { } THEN { << >> }
    ELSE UNION { { << x >> \o o : o \in Orders(S \ { x }) } : x \in S }

(***************************************************************************)
(* State.  main of Double_Pi.py (lines 522-595) runs the pipeline; pc is   *)
(* its position.  calls lists the producers and emitters invoked so far,    *)
(* each with whether it delivered (a match, a fitted model, a file).        *)
(***************************************************************************)
VARIABLES
    pc, file, linked_list, Rs, Cs, components, y, exact_result, model,
    is_exact, used_fallback, error, calls, out_netlist, out_values,
    args, result

vars ==
    << pc, file, linked_list, Rs, Cs, components, y, exact_result, model,
       is_exact, used_fallback, error, calls, out_netlist, out_values,
       args, result >>

NoFile == [none |-> TRUE]

PipeIdle ==
    /\ linked_list = << >>
    /\ Rs = << >>
    /\ Cs = << >>
    /\ components = << >>
    /\ y = << 0, 0, 0, 0, 0 >>
    /\ exact_result = None
    /\ model = None
    /\ is_exact = FALSE
    /\ used_fallback = FALSE
    /\ error = "none"
    /\ calls = << >>
    /\ out_netlist = NoFile
    /\ out_values = NoFile

Init ==
    /\ pc = "parse"
    /\ \E s \in Shapes : \E v \in VariantsFor(s) :
          \E rv \in [1 .. s[1] -> RVals(s[1])], cv \in [1 .. NumCaps(s[1], s[2]) -> CVals] :
             file = MkFile(s[1], s[2], rv, cv, v)
    /\ PipeIdle
    /\ args = None
    /\ result = None

\* lines 527-529
Parse ==
    /\ pc = "parse"
    /\ LET p == parse_hspice_file(file)
       IN  /\ linked_list' = p.linked_list
           /\ Rs' = p.Rs
           /\ Cs' = p.Cs
           /\ components' = p.components
    /\ pc' = "moments"
    /\ UNCHANGED << file, y, exact_result, model, is_exact, used_fallback, error,
                    calls, out_netlist, out_values, args, result >>

\* line 538
Moments ==
    /\ pc = "moments"
    /\ y' = apply_rules_reverse_linked_list(linked_list)
    /\ pc' = "topology"
    /\ UNCHANGED << file, linked_list, Rs, Cs, components, exact_result, model,
                    is_exact, used_fallback, error, calls, out_netlist,
                    out_values, args, result >>

AsModel(m) ==
    [none |-> FALSE, R1 |-> Rat(m.R1, 1), R2 |-> Rat(m.R2, 1),
     C1 |-> Rat(m.C1, 1), C2 |-> Rat(m.C2, 1), C3 |-> Rat(m.C3, 1)]

\* lines 549-554
DetectTopology ==
    /\ pc = "topology"
    /\ exact_result' \in { detect_exact_double_pi_from_spice(components, order) :
                             order \in Orders(AllNodes(components)) }
    /\ calls' = Append(calls, [fn |-> "topology", ok |-> ~exact_result'.none])
    /\ IF exact_result'.none
       THEN pc' = "array" /\ UNCHANGED << model, is_exact >>
       ELSE pc' = "emit" /\ model' = AsModel(exact_result') /\ is_exact' = TRUE
    /\ UNCHANGED << file, linked_list, Rs, Cs, components, y, used_fallback,
                    error, out_netlist, out_values, args, result >>

\* lines 555-562
DetectArray ==
    /\ pc = "array"
    /\ exact_result' = detect_exact_double_pi(Rs, Cs)
    /\ calls' = Append(calls, [fn |-> "array", ok |-> ~exact_result'.none])
    /\ IF exact_result'.none
       THEN pc' = "solve" /\ UNCHANGED << model, is_exact >>
       ELSE pc' = "emit" /\ model' = AsModel(exact_result') /\ is_exact' = TRUE
    /\ UNCHANGED << file, linked_list, Rs, Cs, components, y, used_fallback,
                    error, out_netlist, out_values, args, result >>

\* lines 565-571: what main does with the outcome r of the optimizer
SolveOutcome(r) ==
    /\ calls' = Append(calls, [fn |-> "solve", ok |-> ~r.raised])
    /\ IF r.raised
       THEN /\ error' = "ValueError"
            /\ pc' = "done"
            /\ UNCHANGED << model, is_exact, used_fallback >>
       ELSE /\ model' = [none |-> FALSE, R1 |-> r.R1, R2 |-> r.R2,
                         C1 |-> r.C1, C2 |-> r.C2, C3 |-> r.C3]
            /\ is_exact' = FALSE
            /\ used_fallback' = r.used_fallback
            /\ pc' = "emit"
            /\ UNCHANGED error

\* lines 563-571; a ValueError ends main in the handler of line 594
Solve ==
    /\ pc = "solve"
    /\ SolveOutcome(solve_double_pi_symmetric(SumSeq(Rs), SumSeq(Cs), y[2], y[3]))
    /\ UNCHANGED << file, linked_list, Rs, Cs, components, y, exact_result,
                    out_netlist, out_values, args, result >>

\* line 584
Emit ==
    /\ pc = "emit"
    /\ calls' = Append(calls, [fn |-> "emit", ok |-> TRUE])
    /\ out_netlist' = generate_double_pi_spice_file(model)
    /\ pc' = "save"
    /\ UNCHANGED << file, linked_list, Rs, Cs, components, y, exact_result,
                    model, is_exact, used_fallback, error, out_values, args,
                    result >>

\* line 587
Save ==
    /\ pc = "save"
    /\ calls' = Append(calls, [fn |-> "save", ok |-> TRUE])
    /\ out_values' = save_double_pi_values(y, model, is_exact)
    /\ pc' = "done"
    /\ UNCHANGED << file, linked_list, Rs, Cs, components, y, exact_result,
                    model, is_exact, used_fallback, error, out_netlist, args,
                    result >>

Next ==
    \/ Parse
    \/ Moments
    \/ DetectTopology
    \/ DetectArray
    \/ Solve
    \/ Emit
    \/ Save

Spec == Init /\ [][Next]_vars

(***************************************************************************)
(* The optimizer alone: solve_double_pi_symmetric applied to totals and    *)
(* target moments drawn from bounded sets.                                 *)
(***************************************************************************)
MaxM1 == 6
MaxM2 == 17
RtotVals == { -1, 0, 1, 2, 4 }
CtotVals == { -1, 0, 1, 2 }

SolverInit ==
    /\ pc = "call"
    /\ file = << >>
    /\ PipeIdle
    /\ args \in { [none |-> FALSE, Rtot |-> r, Ctot |-> c, m1 |-> a, m2 |-> b] :
                    r \in RtotVals, c \in CtotVals,
                    a \in (-MaxM1) .. 1, b \in -1 .. MaxM2 }
    /\ result = None

CallSolver ==
    /\ pc = "call"
    /\ result' = [none |-> FALSE,
                  ret |-> solve_double_pi_symmetric(args.Rtot, args.Ctot,
                                                    args.m1, args.m2)]
    /\ pc' = "returned"
    /\ UNCHANGED << file, linked_list, Rs, Cs, components, y, exact_result,
                    model, is_exact, used_fallback, error, calls, out_netlist,
                    out_values, args >>

SolverNext == CallSolver

SolverSpec == SolverInit /\ [][SolverNext]_vars

(***************************************************************************)
(* Properties of the optimizer (checked under SolverSpec).                 *)
(***************************************************************************)
Returned == pc = "returned" /\ ~result.none
Delivered == Returned /\ ~result.ret.raised
PositiveTotals == ~args.none /\ args.Rtot > 0 /\ args.Ctot > 0

Half(x) == Rat(x, 2)
Quarter(x) == Rat(x, 4)

IsCanonical(ret) ==
    /\ ret.R1 = Half(args.Rtot)
    /\ ret.R2 = Half(args.Rtot)
    /\ ret.C1 = Quarter(args.Ctot)
    /\ ret.C2 = Half(args.Ctot)
    /\ ret.C3 = Quarter(args.Ctot)

\* alpha = C1 / Ctot and beta = R1 / Rtot of a returned model
AlphaOfModel(ret) == Rat(ret.C1[1], ret.C1[2] * args.Ctot)
BetaOfModel(ret) == Rat(ret.R1[1], ret.R1[2] * args.Rtot)

\* |k2(alpha, beta) - k2_target| <= 1e-10 for the returned model
FitsTarget(ret) ==
    ~BigRatLess(Tol, ErrOf(k2_from(AlphaOfModel(ret), BetaOfModel(ret)),
                           K2TargetOf(args.Rtot, args.Ctot, args.m2)))

\* C1: the R1, R2, C1, C2, C3 returned by a call with Rtot > 0 and Ctot > 0
\* are all strictly positive, from the scan and from the fallback alike.
C1_Passive ==
    (Delivered /\ PositiveTotals) =>
        /\ RatPos(result.ret.R1) /\ RatPos(result.ret.R2)
        /\ RatPos(result.ret.C1) /\ RatPos(result.ret.C2) /\ RatPos(result.ret.C3)

\* a call with positive totals whose result is a scan candidate, not the
\* canonical partition
C1_Witness ==
    /\ Delivered /\ PositiveTotals
    /\ ~IsCanonical(result.ret)
    /\ result.ret.used_fallback

\* C2: the optimizer never ends in an error; with Rtot <= 0 or Ctot <= 0 a
\* model (of clamped totals) is returned and no exception is raised.
C2_NeverRaises ==
    (Returned /\ ~PositiveTotals) =>
        /\ ~result.ret.raised
        /\ RatPos(result.ret.R1) /\ RatPos(result.ret.R2)
        /\ RatPos(result.ret.C1) /\ RatPos(result.ret.C2) /\ RatPos(result.ret.C3)

\* C3: a result flagged used_fallback is the canonical partition
\* R1 = R2 = Rtot/2, C1 = C3 = Ctot/4, C2 = Ctot/2.
C3_FallbackIsCanonical ==
    (Delivered /\ result.ret.used_fallback) => IsCanonical(result.ret)

\* C4: every result is flagged used_fallback or fits the target: 0 < alpha <
\* 1/2, 0 < beta < 1 and |k2(alpha, beta) - k2_target| <= 1e-10.
C4_FitOrFallback ==
    Delivered =>
        \/ result.ret.used_fallback
        \/ /\ RatPos(AlphaOfModel(result.ret))
           /\ RatLess(AlphaOfModel(result.ret), Rat(1, 2))
           /\ RatPos(BetaOfModel(result.ret))
           /\ RatLess(BetaOfModel(result.ret), Rat(1, 1))
           /\ FitsTarget(result.ret)

\* a fitted model returned without the fallback flag
C4_Witness ==
    /\ Delivered
    /\ ~result.ret.used_fallback
    /\ FitsTarget(result.ret)

(***************************************************************************)
(* Properties of the Double-Pi pipeline (checked under Spec).              *)
(***************************************************************************)
\* the values of the well-formed records of one kind, in file order
IsRecord(l, kind) == l.kind = kind /\ l.parts >= 4 /\ l.tok.ok
RecordsOf(kind) == SelectSeq(file, LAMBDA l : IsRecord(l, kind))
InFileOrder(kind) == [i \in DOMAIN RecordsOf(kind) |-> RecordsOf(kind)[i].tok.val]

Parsed == pc \notin { "parse", "call", "returned" }
NonZeroCount == Cardinality({ i \in DOMAIN Rs : Rs[i] # 0 })
FnSeq == [i \in DOMAIN calls |-> calls[i].fn]
AfterTopology == Len(calls) = 1 /\ calls[1].fn = "topology"

AllPositive(m) == m.R1 > 0 /\ m.R2 > 0 /\ m.C1 > 0 /\ m.C2 > 0 /\ m.C3 > 0

\* The ladder the file describes: resistor k of the file joins node k and
\* node k + 1; the capacitance hanging at nodes lo .. hi.
LadderRs == InFileOrder("R")
IsLadder ==
    \A k \in DOMAIN RecordsOf("R") :
        { RecordsOf("R")[k].n1, RecordsOf("R")[k].n2 } = { NodeOf(k), NodeOf(k + 1) }
CapAtNode(node) ==
    LET cs == RecordsOf("C")
        at == { i \in DOMAIN cs : cs[i].n1 = NodeOf(node) \/ cs[i].n2 = NodeOf(node) }
        vals == [i \in DOMAIN cs |-> IF i \in at THEN cs[i].tok.val ELSE 0]
    IN  SumSeq(vals)
RECURSIVE CapOfNodes(_, _)
CapOfNodes(lo, hi) == IF lo > hi THEN 0 ELSE CapAtNode(lo) + CapOfNodes(lo + 1, hi)

NonZeroAt == { k \in DOMAIN LadderRs : LadderRs[k] # 0 }
FirstNz == CHOOSE k \in NonZeroAt : \A j \in NonZeroAt : k <= j
SecondNz == CHOOSE k \in NonZeroAt : \A j \in NonZeroAt : j <= k

\* the Double-Pi the ladder is, driver end first
Original ==
    Match(LadderRs[FirstNz], LadderRs[SecondNz],
          CapOfNodes(1, FirstNz),
          CapOfNodes(FirstNz + 1, SecondNz),
          CapOfNodes(SecondNz + 1, Len(LadderRs) + 1))

\* exactly two non-zero resistors, three groups with capacitance, all positive
GenuineDoublePi ==
    IsLadder /\ Cardinality(NonZeroAt) = 2 /\ AllPositive(Original)

\* C5: the model has exactly one producer: topology-aware detector first,
\* positional detector only after it found no match, optimizer only after both
\* found none; the emitter is then called once with that model.
C5_OneProducerThenEmit ==
    pc = "done" =>
        /\ \/ FnSeq = << "topology", "emit", "save" >> /\ calls[1].ok
           \/ /\ FnSeq = << "topology", "array", "emit", "save" >>
              /\ ~calls[1].ok /\ calls[2].ok
           \/ /\ FnSeq = << "topology", "array", "solve", "emit", "save" >>
              /\ ~calls[1].ok /\ ~calls[2].ok /\ calls[3].ok
        /\ ~model.none
        /\ out_netlist = generate_double_pi_spice_file(model)

\* C6: with a number of non-zero resistors other than 2, both detectors
\* return no match.
C6_NoMatchUnlessTwo ==
    (Parsed /\ NonZeroCount # 2) =>
        \A i \in DOMAIN calls :
            calls[i].fn \in { "topology", "array" } => ~calls[i].ok

\* three non-zero resistors, both detectors tried
C6_Witness ==
    /\ Parsed /\ NonZeroCount = 3
    /\ Len(calls) >= 2 /\ calls[1].fn = "topology" /\ calls[2].fn = "array"
    /\ exact_result.none

\* C7: for a genuine Double-Pi the topology-aware detector returns the
\* original (R1, R2, C1, C2, C3), driver end first, never the mirrored tuple.
C7_OriginalOrientation ==
    (AfterTopology /\ GenuineDoublePi) => exact_result = Original

\* C8: the result of the topology-aware detector does not depend on the order
\* in which all_nodes is enumerated.
C8_OrderIndependent ==
    AfterTopology =>
        \A order \in Orders(AllNodes(components)) :
            detect_exact_double_pi_from_spice(components, order) = exact_result

\* C9: every model an exact-detection strategy returns has R1, R2, C1, C2, C3
\* all strictly positive.
C9_DetectedPositive ==
    ~exact_result.none => AllPositive(exact_result)

\* C10: parse_hspice_file returns Rs and Cs in the order of their records in
\* the file.
C10_FileOrder ==
    Parsed => Rs = InFileOrder("R") /\ Cs = InFileOrder("C")

(***************************************************************************)
(* Netlist text, character by character.  A text line is the sequence of   *)
(* its whitespace-separated fields, a field the sequence of its            *)
(* characters; an empty line is << >>.  A parsed magnitude is the decimal  *)
(* number m * 10^e.  The fields of this model hold no "inf", "nan" or      *)
(* underscore, which float() would also accept.                            *)
(***************************************************************************)
IsDigit(c) == c \in { "0", "1", "2", "3", "4", "5", "6", "7", "8", "9" }
DigitVal(c) ==
    CASE c = "0" -> 0 [] c = "1" -> 1 [] c = "2" -> 2 [] c = "3" -> 3 [] c = "4" -> 4
      [] c = "5" -> 5 [] c = "6" -> 6 [] c = "7" -> 7 [] c = "8" -> 8 [] OTHER -> 9

\* str.lower() and str.upper() on the letters the fields are written with
LowerChar(c) ==
    CASE c = "R" -> "r" [] c = "C" -> "c" [] c = "F" -> "f" [] c = "P" -> "p"
      [] c = "K" -> "k" [] c = "M" -> "m" [] c = "E" -> "e" [] c = "G" -> "g"
      [] c = "X" -> "x" [] OTHER -> c
UpperChar(c) ==
    CASE c = "r" -> "R" [] c = "c" -> "C" [] c = "f" -> "F" [] c = "p" -> "P"
      [] c = "k" -> "K" [] c = "m" -> "M" [] c = "e" -> "E" [] c = "g" -> "G"
      [] c = "x" -> "X" [] OTHER -> c
Lower(s) == [i \in 1 .. Len(s) |-> LowerChar(s[i])]
Upper(s) == [i \in 1 .. Len(s) |-> UpperChar(s[i])]

Drop(s, n) == SubSeq(s, n + 1, Len(s))

RECURSIVE TakeDigits(_)
TakeDigits(s) ==
    IF s = << >> \/ ~IsDigit(Head(s)) THEN << >>
    ELSE << Head(s) >> \o TakeDigits(Tail(s))

RECURSIVE DigitsValue(_, _)
DigitsValue(s, acc) ==
    IF s = << >> THEN acc ELSE DigitsValue(Tail(s), 10 * acc + DigitVal(Head(s)))

HasSign(s) == s # << >> /\ Head(s) \in { "+", "-" }
StripSign(s) == IF HasSign(s) THEN Tail(s) ELSE s
SignOf(s) == IF s # << >> /\ Head(s) = "-" THEN -1 ELSE 1

NotANumber == [ok |-> FALSE]
Number(m, e) == [ok |-> TRUE, m |-> m, e |-> e]

\* float(): [sign] digits [. digits] [e [sign] digits], at least one digit in
\* the mantissa
FloatExpDigits(sgn, ip, fp, es, eb) ==
    IF eb # << >> /\ TakeDigits(eb) = eb
    THEN Number(sgn * DigitsValue(ip \o fp, 0), es * DigitsValue(eb, 0) - Len(fp))
    ELSE NotANumber

FloatExp(sgn, ip, fp, r2) ==
    IF Len(ip) + Len(fp) = 0 THEN NotANumber
    ELSE IF r2 = << >> THEN Number(sgn * DigitsValue(ip \o fp, 0), -Len(fp))
    ELSE IF Head(r2) \in { "e", "E" }
         THEN FloatExpDigits(sgn, ip, fp, SignOf(Tail(r2)), StripSign(Tail(r2)))
         ELSE NotANumber

FloatFrac(sgn, ip, r1) ==
    IF r1 # << >> /\ Head(r1) = "."
    THEN FloatExp(sgn, ip, TakeDigits(Tail(r1)),
                  Drop(Tail(r1), Len(TakeDigits(Tail(r1)))))
    ELSE FloatExp(sgn, ip, << >>, r1)

FloatInt(sgn, body) ==
    FloatFrac(sgn, TakeDigits(body), Drop(body, Len(TakeDigits(body))))

Float(tok) == FloatInt(SignOf(tok), StripSign(tok))

(***************************************************************************)
(* PI_MODEL.parse_unit_prefix, lines 22-61, and PI_MODEL.parse_hspice_file, *)
(* lines 64-102.                                                           *)
(***************************************************************************)
\* unit_prefixes, lines 24-33: the decimal exponent of a prefix
Prefixes ==
    { << "f" >>, << "p" >>, << "n" >>, << "u" >>, << "m" >>, << "k" >>,
      << "m", "e", "g" >>, << "g" >> }
PrefixExp(u) ==
    CASE u = << "f" >> -> -15 [] u = << "p" >> -> -12 [] u = << "n" >> -> -9
      [] u = << "u" >> -> -6 [] u = << "m" >> -> -3 [] u = << "k" >> -> 3
      [] u = << "m", "e", "g" >> -> 6 [] OTHER -> 9

\* the loop of lines 45-50: the leading digits and dots
RECURSIVE NumericPart(_)
NumericPart(s) ==
    IF s = << >> \/ ~(IsDigit(Head(s)) \/ Head(s) = ".") THEN << >>
    ELSE << Head(s) >> \o NumericPart(Tail(s))

NoValue == [none |-> TRUE]
Value(m, e) == [none |-> FALSE, m |-> m, e |-> e]

\* lines 52-61: float(numeric_part), times the multiplier of a unit part that
\* is a prefix, unchanged for any other unit part
PrefixedValue(num, unit_part) ==
    IF ~num.ok THEN NoValue
    ELSE IF unit_part \in Prefixes THEN Value(num.m, num.e + PrefixExp(unit_part))
    ELSE Value(num.m, num.e)

parse_unit_prefix(value_str) ==
    IF Float(value_str).ok THEN Value(Float(value_str).m, Float(value_str).e)
    ELSE PrefixedValue(Float(NumericPart(value_str)),
                       Lower(Drop(value_str, Len(NumericPart(value_str)))))

HasDigit(part) == \E i \in DOMAIN part : IsDigit(part[i])

\* lines 86-92: the last field, or the first field from the fourth on that
\* holds a digit
RECURSIVE FirstWithDigit(_, _)
FirstWithDigit(parts, i) ==
    IF i > Len(parts) THEN parts[Len(parts)]
    ELSE IF HasDigit(parts[i]) THEN parts[i]
    ELSE FirstWithDigit(parts, i + 1)

ValueStr(parts) == FirstWithDigit(parts, 4)

NoComponent == [none |-> TRUE]

\* lines 86-95 for the fields of one record
RecordValue(parts) == parse_unit_prefix(ValueStr(parts))

\* lines 71-100 for one line: the component it adds, if any
PiComponent(line) ==
    IF line = << >> \/ Head(line[1]) \in { "*", "." } THEN NoComponent
    ELSE IF Len(line) < 2 THEN NoComponent
    ELSE IF Head(Upper(line[1])) \notin { "R", "C" } THEN NoComponent
    ELSE IF RecordValue(line).none THEN NoComponent
    ELSE [none |-> FALSE, type |-> Head(Upper(line[1])), value |-> RecordValue(line),
          line |-> line]

RECURSIVE PiComponents(_)
PiComponents(lines) ==
    IF lines = << >> THEN << >>
    ELSE (IF PiComponent(Head(lines)).none THEN << >>
          ELSE << PiComponent(Head(lines)) >>)
         \o PiComponents(Tail(lines))

\* PI_MODEL.parse_hspice_file: the linked list and rc_components
pi_parse_hspice_file(lines) ==
    [linked_list |-> [i \in DOMAIN PiComponents(lines) |->
                         << PiComponents(lines)[i].type, PiComponents(lines)[i].value >>],
     rc_components |-> [i \in DOMAIN PiComponents(lines) |-> PiComponents(lines)[i].line]]

(***************************************************************************)
(* Double_Pi.parse_hspice_file on text: a line is read as the record of    *)
(* fields of the section "Netlist text" above, the fourth field through    *)
(* float().                                                                *)
(***************************************************************************)
FieldOr(line, i) == IF Len(line) >= i THEN line[i] ELSE << >>

TextLine(line) ==
    IF line = << >> THEN Line("*", 0, 0, << >>, << >>, FALSE, 0)
    ELSE Line(IF Head(line[1]) \in { "R", "C" } THEN Head(line[1]) ELSE "*",
              DigitsValue(TakeDigits(Tail(line[1])), 0), Len(line),
              FieldOr(line, 2), FieldOr(line, 3),
              Len(line) >= 4 /\ Float(FieldOr(line, 4)).ok,
              Float(FieldOr(line, 4)))

dp_parse_text(lines) == parse_hspice_file([i \in DOMAIN lines |-> TextLine(lines[i])])

(***************************************************************************)
(* The moment engines alone, one loop pass at a time, on ladders of at     *)
(* most MaxLadder components: first the loop of                            *)
(* apply_rules_reverse_linked_list on the ladder (y) and on the reversed   *)
(* ladder (yr), then the loop of PI_MODEL.apply_rules (yu), then the loop  *)
(* of ladder_moments_up_to_5 on the resistor and capacitor values of the   *)
(* ladder (yl).  last records the latest pass over a resistor: the engine, *)
(* the resistance and the coefficients before and after the pass.          *)
(***************************************************************************)
MaxLadder == 5
LadderVals == { 1, 2 }

Reverse(s) == [i \in 1 .. Len(s) |-> s[Len(s) + 1 - i]]

\* one pass of the loop of Double_Pi.py lines 229-249
ReverseStep(yy, comp) ==
    IF comp[1] = "C" THEN CapacitorRule(yy, comp[2])
    ELSE IF comp[1] = "R" THEN ResistorRule(yy, comp[2])
    ELSE yy

TypeValues(ladder, type) ==
    [i \in DOMAIN SelectSeq(ladder, LAMBDA c : c[1] = type) |->
        SelectSeq(ladder, LAMBDA c : c[1] = type)[i][2]]

NoPass == [engine |-> "none"]
Pass(engine, comp, before, after) ==
    IF comp[1] = "R"
    THEN [engine |-> engine, R |-> comp[2], before |-> before, after |-> after]
    ELSE NoPass

EngineIdle ==
    /\ file = << >>
    /\ PipeIdle

MomentInit ==
    /\ pc = "reverse"
    /\ EngineIdle
    /\ \E n \in 0 .. MaxLadder :
          \E t \in [1 .. n -> { "R", "C" }], v \in [1 .. n -> LadderVals] :
             args = [none |-> FALSE, ladder |-> [i \in 1 .. n |-> << t[i], v[i] >>]]
    /\ result = [none |-> FALSE, i |-> Len(args.ladder),
                 y |-> << 0, 0, 0, 0, 0 >>, yr |-> << 0, 0, 0, 0, 0 >>,
                 j |-> 1, yu |-> << 0, 0, 0 >>,
                 k |-> 0, yl |-> << 0, 0, 0, 0, 0 >>, last |-> NoPass]

MomentFrame ==
    UNCHANGED << file, linked_list, Rs, Cs, components, y, exact_result, model,
                 is_exact, used_fallback, error, calls, out_netlist, out_values,
                 args >>

WalkReverse ==
    /\ pc = "reverse" /\ result.i >= 1
    /\ result' = [result EXCEPT
                     !.i = @ - 1,
                     !.y = ReverseStep(@, args.ladder[result.i]),
                     !.yr = ReverseStep(@, Reverse(args.ladder)[result.i]),
                     !.last = Pass("reverse", args.ladder[result.i], result.y,
                                   ReverseStep(result.y, args.ladder[result.i]))]
    /\ pc' = pc
    /\ MomentFrame

EndReverse ==
    /\ pc = "reverse" /\ result.i = 0
    /\ pc' = "forward"
    /\ result' = [result EXCEPT !.last = NoPass]
    /\ MomentFrame

WalkForward ==
    /\ pc = "forward" /\ result.j <= Len(args.ladder)
    /\ result' = [result EXCEPT
                     !.j = @ + 1,
                     !.yu = PiStep(@, args.ladder[result.j]),
                     !.last = Pass("forward", args.ladder[result.j], result.yu,
                                   PiStep(result.yu, args.ladder[result.j]))]
    /\ pc' = pc
    /\ MomentFrame

ArrayRs == PadRs(TypeValues(args.ladder, "R"), TypeValues(args.ladder, "C"))
ArrayCs == PadCs(TypeValues(args.ladder, "R"), TypeValues(args.ladder, "C"))

EndForward ==
    /\ pc = "forward" /\ result.j > Len(args.ladder)
    /\ pc' = "arrays"
    /\ result' = [result EXCEPT !.k = Len(ArrayRs), !.yl = LadderStart(ArrayCs),
                                !.last = NoPass]
    /\ MomentFrame

WalkArrays ==
    /\ pc = "arrays" /\ result.k >= 1
    /\ result' = [result EXCEPT
                     !.k = @ - 1,
                     !.yl = LadderStep(@, ArrayRs, ArrayCs, result.k),
                     !.last = Pass("arrays", << "R", ArrayRs[result.k] >>, result.yl,
                                   LadderStep(result.yl, ArrayRs, ArrayCs, result.k))]
    /\ pc' = pc
    /\ MomentFrame

EndArrays ==
    /\ pc = "arrays" /\ result.k = 0
    /\ pc' = "walked"
    /\ result' = [result EXCEPT !.last = NoPass]
    /\ MomentFrame

MomentNext ==
    \/ WalkReverse
    \/ EndReverse
    \/ WalkForward
    \/ EndForward
    \/ WalkArrays
    \/ EndArrays

MomentSpec == MomentInit /\ [][MomentNext]_vars

(***************************************************************************)
(* Properties of the moment engines (checked under MomentSpec).            *)
(***************************************************************************)
Walked == pc = "walked"
OnlyCapacitors == \A i \in DOMAIN args.ladder : args.ladder[i][1] = "C"
LadderSum == SumSeq([i \in DOMAIN args.ladder |-> args.ladder[i][2]])

\* the walks agree with the functions applied to the whole ladder
WalksAreTheFunctions ==
    Walked =>
        /\ result.y = apply_rules_reverse_linked_list(args.ladder)
        /\ result.yr = apply_rules_reverse_linked_list(Reverse(args.ladder))
        /\ result.yu = apply_rules(args.ladder)
        /\ result.yl = ladder_moments_up_to_5(TypeValues(args.ladder, "R"),
                                              TypeValues(args.ladder, "C"))

\* C12: a ladder of capacitors only gives (sum of the capacitors, 0, 0, 0, 0)
\* from apply_rules_reverse_linked_list and from ladder_moments_up_to_5 (whose
\* resistor list is then empty).
C12_CapacitorsOnly ==
    (Walked /\ OnlyCapacitors) =>
        /\ result.y = << LadderSum, 0, 0, 0, 0 >>
        /\ result.yl = << LadderSum, 0, 0, 0, 0 >>

\* three capacitors, not all zero
C12_Witness ==
    /\ Walked /\ OnlyCapacitors
    /\ Len(args.ladder) = 3 /\ LadderSum > 2
    /\ TypeValues(args.ladder, "R") = << >>

OneOfEach ==
    /\ Len(args.ladder) = 2
    /\ { args.ladder[1][1], args.ladder[2][1] } = { "R", "C" }
    /\ args.ladder[1][2] # 0 /\ args.ladder[2][2] # 0

SnapshotY2(b, R) == b[2] - R * b[1] * b[1]
SnapshotY3(b, R) == b[3] - 2 * R * b[1] * b[2] + R * R * b[1] * b[1] * b[1]
SnapshotY4(b, R) ==
    b[4] - R * (2 * b[1] * b[3] + b[2] * b[2]) + 3 * R * R * b[1] * b[1] * b[2]
         - R * R * R * b[1] * b[1] * b[1] * b[1]
SnapshotY5(b, R) ==
    b[5] - R * (2 * b[1] * b[4] + 2 * b[2] * b[3])
         + R * R * (3 * b[1] * b[1] * b[3] + 3 * b[1] * b[2] * b[2])
         - 4 * R * R * R * b[1] * b[1] * b[1] * b[2]
         + R * R * R * R * b[1] * b[1] * b[1] * b[1] * b[1]

PassedResistor == pc \in { "reverse", "forward", "arrays" } /\ result.last.engine # "none"

\* C18: in each engine a pass over a resistor R leaves the coefficients that
\* the values held before the pass give: y2 - R*y1^2 and
\* y3 - 2R*y1*y2 + R^2*y1^3 with the y2 of before the pass (and y4, y5
\* likewise where the engine has them).
C18_Snapshot ==
    PassedResistor =>
        /\ result.last.after[2] = SnapshotY2(result.last.before, result.last.R)
        /\ result.last.after[3] = SnapshotY3(result.last.before, result.last.R)
        /\ Len(result.last.after) = 5 =>
              /\ result.last.after[4] = SnapshotY4(result.last.before, result.last.R)
              /\ result.last.after[5] = SnapshotY5(result.last.before, result.last.R)

\* a pass of PI_MODEL.apply_rules that changes y2 before it computes y3
C18_Witness ==
    /\ PassedResistor /\ result.last.engine = "forward"
    /\ result.last.before[2] # 0
    /\ result.last.after[2] # result.last.before[2]

(***************************************************************************)
(* The positional detector alone: detect_exact_double_pi applied to        *)
(* resistor and capacitor arrays of independent lengths.                   *)
(***************************************************************************)
MaxRs == 3
MaxCs == 5
ArrayRVals == { 0, 1, 2 }
ArrayCVals == { 1, 2 }

ArrayInit ==
    /\ pc = "detect"
    /\ EngineIdle
    /\ \E nr \in 0 .. MaxRs, nc \in 0 .. MaxCs :
          \E rs \in [1 .. nr -> ArrayRVals], cs \in [1 .. nc -> ArrayCVals] :
             args = [none |-> FALSE, Rs |-> rs, Cs |-> cs]
    /\ result = None

CallDetector ==
    /\ pc = "detect"
    /\ result' = [none |-> FALSE, ret |-> detect_exact_double_pi(args.Rs, args.Cs)]
    /\ pc' = "detected"
    /\ UNCHANGED << file, linked_list, Rs, Cs, components, y, exact_result,
                    model, is_exact, used_fallback, error, calls, out_netlist,
                    out_values, args >>

ArrayNext == CallDetector

ArraySpec == ArrayInit /\ [][ArrayNext]_vars

(***************************************************************************)
(* Properties of the positional detector (checked under ArraySpec).        *)
(***************************************************************************)
Matched == pc = "detected" /\ ~result.none /\ ~result.ret.none
NCaps == Len(args.Cs)
\* sizes q + [r >= 1] and q + [r >= 2] of the first two groups
ThirdOne == (NCaps \div 3) + (IF NCaps % 3 >= 1 THEN 1 ELSE 0)
ThirdTwo == (NCaps \div 3) + (IF NCaps % 3 >= 2 THEN 1 ELSE 0)
SplitAt(b1, b2) ==
    /\ result.ret.C1 = SumRange(args.Cs, 1, b1)
    /\ result.ret.C2 = SumRange(args.Cs, b1 + 1, b2)
    /\ result.ret.C3 = SumRange(args.Cs, b2 + 1, NCaps)
NzPositions == { i \in DOMAIN args.Rs : args.Rs[i] # 0 }
LowNz == CHOOSE i \in NzPositions : \A j \in NzPositions : i <= j
HighNz == CHOOSE i \in NzPositions : \A j \in NzPositions : j <= i
StandardFormat == NCaps = Len(args.Rs) + 1

\* C20 as stated: a match for n >= 3 capacitors has C1, C2, C3 the sums of
\* contiguous groups of sizes (q + [r >= 1], q + [r >= 2], q), whatever the
\* relation between len(Cs) and len(Rs).
C20_SplitInThirds ==
    (Matched /\ NCaps >= 3) => SplitAt(ThirdOne, ThirdOne + ThirdTwo)

\* C20 amended: the split is in thirds when len(Cs) # len(Rs) + 1; when
\* len(Cs) = len(Rs) + 1 the groups end at the first and at the second
\* non-zero resistor.
C20_SplitAmended ==
    (Matched /\ NCaps >= 3) =>
        IF StandardFormat THEN SplitAt(LowNz, HighNz)
        ELSE SplitAt(ThirdOne, ThirdOne + ThirdTwo)

\* a match on five capacitors and two resistors: groups of 2, 2 and 1
C20_Witness ==
    /\ Matched /\ NCaps = 5 /\ Len(args.Rs) = 2
    /\ result.ret.C3 = args.Cs[5]

(***************************************************************************)
(* Further properties of the Double-Pi pipeline (checked under Spec).      *)
(***************************************************************************)
\* the supernodes: the groups of resistor nodes joined by zero-ohm resistors
SuperNodes ==
    { find_connected_nodes(n, ZeroResistors(components)) \ { "0" } :
        n \in AllNodes(components) }
SuperDegree(g) ==
    Cardinality({ << k, h >> \in (DOMAIN NonZeroResistors(components)) \X SuperNodes :
                    h # g /\ Connects(NonZeroResistors(components)[k], g, h) })

\* C19: the topology-aware detector returns a match only when there are
\* exactly three supernodes, one of degree 2 and two of degree 1.
C19_SimplePathOnly ==
    (AfterTopology /\ ~exact_result.none) =>
        /\ Cardinality(SuperNodes) = 3
        /\ Cardinality({ g \in SuperNodes : SuperDegree(g) = 2 }) = 1
        /\ Cardinality({ g \in SuperNodes : SuperDegree(g) = 1 }) = 2
(***************************************************************************)
(* The two parsers on netlist text: each file of at most MaxTextLines      *)
(* lines is read by PI_MODEL.parse_hspice_file and then by                 *)
(* Double_Pi.parse_hspice_file.                                            *)
(***************************************************************************)
MaxTextLines == 2

Tok1(a) == << a >>
Tok2(a, b) == << a, b >>

TextLineIds == 1 .. 15
TextLinesAt(k) ==
    CASE k = 1  -> << Tok2("R", "1"), Tok1("1"), Tok1("2"), Tok2("1", "0") >>
      [] k = 2  -> << Tok2("C", "1"), Tok1("2"), Tok1("0"), Tok2("5", "p") >>
      [] k = 3  -> << Tok2("R", "2"), Tok1("2"), Tok1("3"), << "1", "M", "e", "g" >> >>
      [] k = 4  -> << Tok2("C", "2"), Tok1("3"), Tok1("0"),
                      << "1", ".", "5", "e", "-", "3" >> >>
      [] k = 5  -> << Tok2("R", "3"), Tok1("1"), Tok1("2") >>
      [] k = 6  -> << Tok2("C", "3"), Tok1("1") >>
      [] k = 7  -> << Tok2("C", "4"), Tok1("1"), Tok1("0"), << "1", "0", "p", "F" >> >>
      [] k = 8  -> << Tok2("R", "4"), Tok1("1"), Tok1("2"), << "1", "0", "x" >> >>
      [] k = 9  -> << Tok2("R", "5"), Tok1("1"), Tok1("2"), Tok1("x"), Tok1("7") >>
      [] k = 10 -> << Tok2("r", "6"), Tok1("1"), Tok1("2"), Tok1("5") >>
      [] k = 11 -> << Tok2("C", "5"), Tok1("1"), Tok1("0"), << "-", "5", "p" >> >>
      [] k = 12 -> << Tok1("*"), Tok1("c") >>
      [] k = 13 -> << << ".", "e", "n", "d" >> >>
      [] k = 14 -> << Tok2("R", "7"), Tok1("1"), Tok1("2"),
                      << "1", ".", "2", ".", "3" >> >>
      [] OTHER  -> << >>

ParseInit ==
    /\ pc = "text"
    /\ \E n \in 0 .. MaxTextLines :
          \E ks \in [1 .. n -> TextLineIds] :
             file = [i \in 1 .. n |-> TextLinesAt(ks[i])]
    /\ PipeIdle
    /\ args = None
    /\ result = None

ParseFrame ==
    UNCHANGED << file, linked_list, Rs, Cs, components, y, exact_result, model,
                 is_exact, used_fallback, error, calls, out_netlist, out_values,
                 args >>

ReadPi ==
    /\ pc = "text"
    /\ result' = [none |-> FALSE, pi |-> pi_parse_hspice_file(file), dp |-> None]
    /\ pc' = "pi_read"
    /\ ParseFrame

ReadDoublePi ==
    /\ pc = "pi_read"
    /\ result' = [result EXCEPT !.dp = dp_parse_text(file)]
    /\ pc' = "read"
    /\ ParseFrame

ParseNext == ReadPi \/ ReadDoublePi

ParseSpec == ParseInit /\ [][ParseNext]_vars

BothRead == pc = "read"

IsRCRecord(line) == line # << >> /\ Head(Upper(line[1])) \in { "R", "C" }

\* a bare number, or a number followed by exactly one prefix
IsMagnitude(tok) ==
    \/ Float(tok).ok
    \/ \E k \in 1 .. Len(tok) - 1 :
          /\ Float(SubSeq(tok, 1, k)).ok
          /\ Lower(Drop(tok, k)) \in Prefixes

Malformed(line) ==
    IsRCRecord(line) /\ (Len(line) < 4 \/ ~IsMagnitude(line[4]))

WellFormedLines(lines) == SelectSeq(lines, LAMBDA l : ~Malformed(l))

\* C11: in both parsers a record with fewer than four fields, or with a
\* fourth field that is neither a bare number nor a number followed by one
\* recognised prefix, adds no component and leaves the rest of the parse as it
\* is: what each parser returns for a file is what it returns for the file
\* without its malformed records.
C11_MalformedSkipped ==
    BothRead =>
        /\ result.pi = pi_parse_hspice_file(WellFormedLines(file))
        /\ result.dp = dp_parse_text(WellFormedLines(file))

\* the same for the parser of Double_Pi.py alone
DoublePiSkipsMalformed ==
    BothRead => result.dp = dp_parse_text(WellFormedLines(file))

(***************************************************************************)
(* The Pi pipeline: PI_MODEL.py.  The magnitudes of the files of this      *)
(* pipeline are whole numbers, so the moments are integers and the model   *)
(* values exact rationals.                                                 *)
(***************************************************************************)
RECURSIVE Pow10(_)
Pow10(e) == IF e <= 0 THEN 1 ELSE 10 * Pow10(e - 1)

\* the float m * 10^e of a whole magnitude
Whole(v) == v.m * Pow10(v.e)

PiLadder(ll) == [i \in DOMAIN ll |-> << ll[i][1], Whole(ll[i][2]) >>]

\* n / d for d # 0
Quot(n, d) == IF d < 0 THEN Rat(-n, -d) ELSE Rat(n, d)

\* convert_to_pi_model, lines 164-168: the divisions of lines 165 and 166 are
\* by YU_3, the one of line 167 by YU_2 ** 3
ConvertRaises(yu) == yu[3] = 0 \/ yu[2] = 0

convert_to_pi_model(yu) ==
    [none |-> FALSE,
     R1 |-> Quot(-(yu[3] * yu[3]), yu[2] * yu[2] * yu[2]),
     C1 |-> Quot(yu[1] * yu[3] - yu[2] * yu[2], yu[3]),
     C2 |-> Quot(yu[2] * yu[2], yu[3])]

\* find_rc_section, lines 105-138; i, start_idx and end_idx count from 0
StartsRC(line) == line # << >> /\ Head(line[1]) \in { "R", "C" }
CommentOrEmpty(line) == line = << >> \/ Head(line[1]) = "*"

Section(start_idx, end_idx, rc_lines) ==
    [start_idx |-> start_idx, end_idx |-> end_idx, rc_lines |-> rc_lines]

RECURSIVE RcScan(_, _, _, _)
RcScan(lines, i, start_idx, rc_lines) ==
    IF i >= Len(lines)
    THEN Section(start_idx, IF start_idx # -1 THEN Len(lines) ELSE -1, rc_lines)
    ELSE IF CommentOrEmpty(lines[i + 1]) THEN RcScan(lines, i + 1, start_idx, rc_lines)
    ELSE IF StartsRC(lines[i + 1])
         THEN RcScan(lines, i + 1, IF start_idx = -1 THEN i ELSE start_idx,
                     Append(rc_lines, lines[i + 1]))
    ELSE IF start_idx # -1 /\ Len(rc_lines) >= 2 THEN Section(start_idx, i, rc_lines)
    ELSE RcScan(lines, i + 1, start_idx, rc_lines)

find_rc_section(lines) == RcScan(lines, 0, -1, << >>)

\* get_rc_network_nodes, lines 171-182: the start node; the end node of lines
\* 184-214 is discarded by the caller (line 232)
get_rc_network_nodes(rc_lines) ==
    IF rc_lines = << >> THEN << "1" >>
    ELSE IF Len(rc_lines[1]) >= 3 THEN rc_lines[1][2]
    ELSE << "1" >>

\* a line the emitter copies, and a record it writes
Copied(line) == [src |-> "input", text |-> line]
Written(name, node1, node2, value) ==
    [src |-> "model", name |-> name, node1 |-> node1, node2 |-> node2,
     value |-> value]

\* lines 240-243
PiRecords(start_node, m) ==
    << Written("R1", start_node, << "2" >>, m.R1),
       Written("C1", start_node, << "0" >>, m.C1),
       Written("C2", << "2" >>, << "0" >>, m.C2) >>

\* lines 235-247: what a complete output file holds
PiOutput(lines, sec, m) ==
    [i \in 1 .. sec.start_idx |-> Copied(lines[i])]
      \o PiRecords(get_rc_network_nodes(sec.rc_lines), m)
      \o [i \in 1 .. Len(lines) - sec.end_idx |-> Copied(lines[sec.end_idx + i])]

WrittenFile(lines, complete) ==
    [none |-> FALSE, lines |-> lines, complete |-> complete]

(***************************************************************************)
(* PI_MODEL.main, lines 262-292, one statement at a time, on each file of  *)
(* at most MaxPiLines lines.  Opening, reading and writing a file may      *)
(* fail; main catches nothing.                                             *)
(***************************************************************************)
MaxPiLines == 4

PiLineIds == 1 .. 6
PiLinesAt(k) ==
    CASE k = 1 -> << Tok2("R", "1"), Tok1("1"), Tok1("2"), Tok1("1") >>
      [] k = 2 -> << Tok2("C", "1"), Tok1("2"), Tok1("0"), Tok1("1") >>
      [] k = 3 -> << Tok2("r", "3"), Tok1("1"), Tok1("2"), Tok1("2") >>
      [] k = 4 -> << Tok2("c", "4"), Tok1("2"), Tok1("0"), Tok1("1") >>
      [] k = 5 -> << << "v", "d", "d" >>, Tok1("2"), Tok1("0"), Tok1("1") >>
      [] OTHER -> << << ".", "e", "n", "d" >> >>

Printed(msgs) == [none |-> FALSE, printed |-> msgs]

PiInit ==
    /\ pc = "pi_parse"
    /\ \E n \in 0 .. MaxPiLines :
          \E ks \in [1 .. n -> PiLineIds] :
             file = [i \in 1 .. n |-> PiLinesAt(ks[i])]
    /\ PipeIdle
    /\ args = None
    /\ result = Printed(<< >>)

PiFrame ==
    UNCHANGED << file, Rs, Cs, components, exact_result, is_exact,
                 used_fallback, calls, args >>

PiCrash(kind) ==
    /\ error' = kind
    /\ pc' = "crashed"

\* line 264 with the file read
PiParse ==
    /\ pc = "pi_parse"
    /\ pi_parse_hspice_file(file).linked_list # << >>
    /\ linked_list' = pi_parse_hspice_file(file).linked_list
    /\ pc' = "pi_moments"
    /\ UNCHANGED << y, model, error, out_netlist, out_values, result >>
    /\ PiFrame

\* line 264: open() or readlines() raises
PiParseFails ==
    /\ pc = "pi_parse"
    /\ PiCrash("OSError")
    /\ UNCHANGED << linked_list, y, model, out_netlist, out_values, result >>
    /\ PiFrame

\* lines 266-268
PiNoComponents ==
    /\ pc = "pi_parse"
    /\ pi_parse_hspice_file(file).linked_list = << >>
    /\ result' = Printed(Append(result.printed, "No valid RC components found"))
    /\ pc' = "done"
    /\ UNCHANGED << linked_list, y, model, error, out_netlist, out_values >>
    /\ PiFrame

\* line 271
PiMoments ==
    /\ pc = "pi_moments"
    /\ y' = apply_rules(PiLadder(linked_list))
    /\ pc' = "pi_convert"
    /\ UNCHANGED << linked_list, model, error, out_netlist, out_values, result >>
    /\ PiFrame

\* lines 274-285
PiConvert ==
    /\ pc = "pi_convert"
    /\ ~ConvertRaises(y)
    /\ model' = convert_to_pi_model(y)
    /\ result' = Printed(Append(result.printed, "Final Component Values"))
    /\ pc' = "pi_emit"
    /\ UNCHANGED << linked_list, y, error, out_netlist, out_values >>
    /\ PiFrame

\* line 274: a division by zero
PiConvertFails ==
    /\ pc = "pi_convert"
    /\ ConvertRaises(y)
    /\ PiCrash("ZeroDivisionError")
    /\ UNCHANGED << linked_list, y, model, out_netlist, out_values, result >>
    /\ PiFrame

\* lines 288-289 with an RC section found and every write done
PiEmit ==
    /\ pc = "pi_emit"
    /\ find_rc_section(file).start_idx # -1
    /\ out_netlist' = WrittenFile(PiOutput(file, find_rc_section(file), model), TRUE)
    /\ result' = Printed(Append(result.printed, "Generated Pi model SPICE file"))
    /\ pc' = "pi_save"
    /\ UNCHANGED << linked_list, y, model, error, out_values >>
    /\ PiFrame

\* lines 227-229 and 289: no RC section, nothing written, main goes on
PiEmitNothing ==
    /\ pc = "pi_emit"
    /\ find_rc_section(file).start_idx = -1
    /\ result' = Printed(result.printed \o << "No RC network found in the file",
                                              "Generated Pi model SPICE file" >>)
    /\ pc' = "pi_save"
    /\ UNCHANGED << linked_list, y, model, error, out_netlist, out_values >>
    /\ PiFrame

\* line 288: reading the input or opening the output raises (k = -1), or a
\* write raises after k lines
PiEmitFails ==
    /\ pc = "pi_emit"
    /\ \E k \in -1 .. Len(file) + 2 :
          /\ k >= 0 => /\ find_rc_section(file).start_idx # -1
                       /\ k < Len(PiOutput(file, find_rc_section(file), model))
          /\ out_netlist' =
                IF k = -1 THEN out_netlist
                ELSE WrittenFile(SubSeq(PiOutput(file, find_rc_section(file), model),
                                        1, k), FALSE)
    /\ PiCrash("OSError")
    /\ UNCHANGED << linked_list, y, model, out_values, result >>
    /\ PiFrame

ValuesFile(yu, m, complete) ==
    [none |-> FALSE, YU |-> yu, model |-> m, complete |-> complete]

\* line 292 with every write done
PiSave ==
    /\ pc = "pi_save"
    /\ out_values' = ValuesFile(y, model, TRUE)
    /\ pc' = "done"
    /\ UNCHANGED << linked_list, y, model, error, out_netlist, result >>
    /\ PiFrame

\* line 292: open() raises, or a write raises
PiSaveFails ==
    /\ pc = "pi_save"
    /\ \E opened \in BOOLEAN :
          out_values' = IF opened THEN ValuesFile(y, model, FALSE) ELSE out_values
    /\ PiCrash("OSError")
    /\ UNCHANGED << linked_list, y, model, out_netlist, result >>
    /\ PiFrame

PiNext ==
    \/ PiParse
    \/ PiParseFails
    \/ PiNoComponents
    \/ PiMoments
    \/ PiConvert
    \/ PiConvertFails
    \/ PiEmit
    \/ PiEmitNothing
    \/ PiEmitFails
    \/ PiSave
    \/ PiSaveFails

PiSpec == PiInit /\ [][PiNext]_vars

(***************************************************************************)
(* Properties of the Pi pipeline.                                          *)
(***************************************************************************)
NetlistWritten == ~out_netlist.none /\ out_netlist.complete
ValuesWritten == ~out_values.none /\ out_values.complete

IsCopied(l) == l.src = "input"
IsWritten(l) == l.src = "model"

KeptText(lines) ==
    [i \in DOMAIN SelectSeq(lines, IsCopied) |-> SelectSeq(lines, IsCopied)[i].text]

\* the first line of the first run of two or more consecutive R/C records
RunStarts(lines) ==
    { i \in 1 .. Len(lines) - 1 : StartsRC(lines[i]) /\ StartsRC(lines[i + 1]) }
HasRun(lines) == RunStarts(lines) # {}
RunStart(lines) == CHOOSE i \in RunStarts(lines) : \A j \in RunStarts(lines) : i <= j
RunEnd(lines) ==
    CHOOSE j \in RunStart(lines) .. Len(lines) :
        /\ \A k \in RunStart(lines) .. j : StartsRC(lines[k])
        /\ j = Len(lines) \/ ~StartsRC(lines[j + 1])
OutsideRun(lines) ==
    SubSeq(lines, 1, RunStart(lines) - 1) \o SubSeq(lines, RunEnd(lines) + 1, Len(lines))

\* C14: the Pi emitter copies every input line outside the RC block, unchanged
\* and in order, the block being the first run of two or more consecutive R/C
\* records: a line standing between a single R/C record and that run is
\* copied, not dropped.
C14_OutsideKept ==
    (NetlistWritten /\ HasRun(file)) =>
        KeptText(out_netlist.lines) = OutsideRun(file)

\* the node ids of the copied lines: the second and third field
NodeIds(lines) ==
    { lines[i][f] : i \in { j \in DOMAIN lines : Len(lines[j]) >= 3 }, f \in { 2, 3 } }

FirstRecord(lines) ==
    lines[CHOOSE i \in DOMAIN lines :
              StartsRC(lines[i]) /\ \A j \in 1 .. i - 1 : ~StartsRC(lines[j])]

\* C15: the Pi emitter writes exactly three records, its first stage starts
\* at the entry node of the network, and its internal node differs from the
\* entry node and from every node id of the lines it copies.
C15_FreshNodes ==
    NetlistWritten =>
        /\ Len(SelectSeq(out_netlist.lines, IsWritten)) = 3
        /\ SelectSeq(out_netlist.lines, IsWritten)[1].node1 = FirstRecord(file)[2]
        /\ SelectSeq(out_netlist.lines, IsWritten)[2].node1 = FirstRecord(file)[2]
        /\ SelectSeq(out_netlist.lines, IsWritten)[1].node2 # FirstRecord(file)[2]
        /\ SelectSeq(out_netlist.lines, IsWritten)[1].node2
              \notin NodeIds(KeptText(out_netlist.lines))

\* the three records and the entry node, leaving the copied lines aside
EmitsThreeFromEntry ==
    NetlistWritten =>
        /\ Len(SelectSeq(out_netlist.lines, IsWritten)) = 3
        /\ SelectSeq(out_netlist.lines, IsWritten)[1].node1 = FirstRecord(file)[2]
        /\ SelectSeq(out_netlist.lines, IsWritten)[2].node1 = FirstRecord(file)[2]

PiEnded == pc \in { "done", "crashed" }
ReportedGenerated ==
    \E i \in DOMAIN result.printed : result.printed[i] = "Generated Pi model SPICE file"

\* C16: when a run of the Pi pipeline has ended, failures of reading and
\* writing included, either the netlist and the values report are both
\* completely written or neither file has been touched; and at no time is the
\* netlist reported as generated, or a values report written, without the
\* netlist being completely written.
C16_OutputsConsistent ==
    /\ PiEnded => \/ NetlistWritten /\ ValuesWritten
                  \/ out_netlist.none /\ out_values.none
    /\ ReportedGenerated => NetlistWritten
    /\ ~out_values.none => NetlistWritten

\* the same with no read or write failing
ConsistentWithoutFailure ==
    error = "none" =>
        /\ PiEnded => \/ NetlistWritten /\ ValuesWritten
                      \/ out_netlist.none /\ out_values.none
        /\ ReportedGenerated => NetlistWritten
        /\ ~out_values.none => NetlistWritten

\* C17: the Pi pipeline never divides by zero, and a model it has converted
\* has R1, C1 and C2 all positive.
C17_PositiveModel ==
    /\ error # "ZeroDivisionError"
    /\ ~model.none => RatPos(model.R1) /\ RatPos(model.C1) /\ RatPos(model.C2)

\* the model values alone, a division by zero aside
ConvertedPositive ==
    ~model.none => RatPos(model.R1) /\ RatPos(model.C1) /\ RatPos(model.C2)

\* no division by zero, the model values aside
NoZeroDivision == error # "ZeroDivisionError"

(***************************************************************************)
(* RC_Model.py: sum_C_times_Rup, lines 18-33, and rc_equivalent, lines     *)
(* 35-46, on integer values; Req is the exact quotient.                    *)
(***************************************************************************)
Raised(kind) == [raised |-> kind]

\* lines 29-32 from capacitor i on, Rup being the resistance upstream of it
RECURSIVE RupLoop(_, _, _, _, _)
RupLoop(rs, cs, i, Rup, total) ==
    IF i > Len(cs) THEN total
    ELSE RupLoop(rs, cs, i + 1, IF i <= Len(rs) THEN Rup + rs[i] ELSE Rup,
                 total + cs[i] * Rup)

sum_C_times_Rup(rs, cs, Rdrv) ==
    IF ~(Len(cs) = Len(rs) \/ Len(cs) = Len(rs) + 1) THEN Raised("ValueError")
    ELSE [raised |-> "none", total |-> RupLoop(rs, cs, 1, Rdrv, 0)]

ceq_from(cs) == SumSeq(cs)

rc_equivalent(rs, cs, Rdrv) ==
    IF ceq_from(cs) <= 0 THEN Raised("ValueError")
    ELSE IF sum_C_times_Rup(rs, cs, Rdrv).raised # "none"
         THEN sum_C_times_Rup(rs, cs, Rdrv)
    ELSE [raised |-> "none",
          Req |-> Rat(sum_C_times_Rup(rs, cs, Rdrv).total, ceq_from(cs)),
          Ceq |-> ceq_from(cs),
          sumCR |-> sum_C_times_Rup(rs, cs, Rdrv).total]

MaxRcRs == 2
MaxRcCs == 3

RcInit ==
    /\ pc = "rc_sum"
    /\ EngineIdle
    /\ \E nr \in 0 .. MaxRcRs, nc \in 0 .. MaxRcCs, rd \in { 0, 1 } :
          \E rs \in [1 .. nr -> { 1, 2 }], cs \in [1 .. nc -> { 0, 1, 2 }] :
             args = [none |-> FALSE, Rs |-> rs, Cs |-> cs, Rdrv |-> rd]
    /\ result = None

RcFrame ==
    UNCHANGED << file, linked_list, Rs, Cs, components, y, exact_result, model,
                 is_exact, used_fallback, error, calls, out_netlist, out_values,
                 args >>

CallSum ==
    /\ pc = "rc_sum"
    /\ result' = [none |-> FALSE, sum |-> sum_C_times_Rup(args.Rs, args.Cs, args.Rdrv),
                  eq |-> None]
    /\ pc' = "rc_equivalent"
    /\ RcFrame

CallEquivalent ==
    /\ pc = "rc_equivalent"
    /\ result' = [result EXCEPT !.eq = rc_equivalent(args.Rs, args.Cs, args.Rdrv)]
    /\ pc' = "rc_done"
    /\ RcFrame

RcNext == CallSum \/ CallEquivalent

RcSpec == RcInit /\ [][RcNext]_vars

RcDone == pc = "rc_done"

\* Rdrv + Rs[1] + ... + Rs[n]
Upstream(rs, Rdrv, n) == Rdrv + SumSeq(SubSeq(rs, 1, n))

RECURSIVE Weighted(_, _, _, _, _)
Weighted(rs, cs, Rdrv, shift, i) ==
    IF i > Len(cs) THEN 0
    ELSE cs[i] * Upstream(rs, Rdrv, i - 1 + shift)
         + Weighted(rs, cs, Rdrv, shift, i + 1)

LengthsFit == Len(args.Cs) = Len(args.Rs) \/ Len(args.Cs) = Len(args.Rs) + 1

\* the weighted sum both functions should return: the i-th capacitor weighted
\* by the resistance up to and including its own resistor when there are as
\* many capacitors as resistors, and up to the resistor before it otherwise
ExpectedSum ==
    Weighted(args.Rs, args.Cs, args.Rdrv,
             IF Len(args.Cs) = Len(args.Rs) THEN 1 ELSE 0, 1)

\* C21: sum_C_times_Rup and rc_equivalent raise ValueError for lengths that
\* do not fit, rc_equivalent also for a capacitor sum <= 0; otherwise the
\* i-th capacitor is weighted by Rdrv + Rs[0] + ... + Rs[i] when there are as
\* many capacitors as resistors (none at the driver node) and by
\* Rdrv + Rs[0] + ... + Rs[i-1] when there is one more.
C21_UpstreamWeights ==
    RcDone =>
        /\ result.sum.raised = (IF LengthsFit THEN "none" ELSE "ValueError")
        /\ result.eq.raised =
              (IF LengthsFit /\ SumSeq(args.Cs) > 0 THEN "none" ELSE "ValueError")
        /\ result.sum.raised = "none" => result.sum.total = ExpectedSum
        /\ result.eq.raised = "none" => result.eq.sumCR = ExpectedSum

\* the same with every capacitor weighted by the resistance before it,
\* whatever the lengths
WeightsFromDriver ==
    RcDone =>
        /\ result.sum.raised = (IF LengthsFit THEN "none" ELSE "ValueError")
        /\ result.eq.raised =
              (IF LengthsFit /\ SumSeq(args.Cs) > 0 THEN "none" ELSE "ValueError")
        /\ result.sum.raised = "none" =>
              result.sum.total = Weighted(args.Rs, args.Cs, args.Rdrv, 0, 1)
        /\ result.eq.raised = "none" =>
              result.eq.sumCR = Weighted(args.Rs, args.Cs, args.Rdrv, 0, 1)

(***************************************************************************)
(* Capacitance kept by the exact detectors.                                *)
(***************************************************************************)
MatchTotal(m) == m.C1 + m.C2 + m.C3

\* C22: a match returned by either exact detector has C1 + C2 + C3 equal to
\* the sum of all capacitor values of the parsed component list.
C22_CapacitanceConserved ==
    (Parsed /\ ~exact_result.none) => MatchTotal(exact_result) = SumSeq(Cs)

\* the same for detect_exact_double_pi on its arrays alone
ArrayConserves ==
    Matched => MatchTotal(result.ret) = SumSeq(args.Cs)

\* the same for the topology-aware detector on exactly three supernodes
ConservedOnSimplePath ==
    (AfterTopology /\ ~exact_result.none /\ Cardinality(SuperNodes) = 3) =>
        MatchTotal(exact_result) = SumSeq(Cs)

(***************************************************************************)
(* The two GUI tools, Lumped-C.py and RC_Model.py: the entry fields, the   *)
(* cached result and the file last written, under edit, compute and save   *)
(* events.  An entry text is the sequence of its comma-separated items,    *)
(* each stripped; the VDD, net and root fields keep their initial text.    *)
(***************************************************************************)
NonBlank(item) == item # << >>
Items(text) == SelectSeq(text, NonBlank)

\* Lumped-C.parse_float_list, lines 10-17, and RC_Model.parse_list, lines 6-13
parse_list(text) ==
    IF \E i \in DOMAIN Items(text) : ~Float(Items(text)[i]).ok
    THEN Raised("ValueError")
    ELSE [raised |-> "none",
          values |-> [i \in DOMAIN Items(text) |-> Whole(Float(Items(text)[i]))]]

\* Lumped-C.App.compute, lines 99-110: current_ceq after the call
LumpedComputed(current, a) ==
    IF parse_list(a.cs_entry).raised # "none" THEN current
    ELSE IF a.rs_entry # << >> /\ parse_list(a.rs_entry).raised # "none" THEN current
    ELSE IF parse_list(a.cs_entry).values = << >> THEN current
    ELSE [none |-> FALSE, C_eq |-> SumSeq(parse_list(a.cs_entry).values)]

\* RC_Model.App.compute, lines 134-144: self.current after the call
RcCurrent(eq, rs, cs, Rdrv) ==
    IF eq.raised # "none" THEN None
    ELSE [none |-> FALSE, Req |-> eq.Req, Ceq |-> eq.Ceq, Rs |-> rs, Cs |-> cs,
          Rdrv |-> Rdrv]

RcComputed(current, a) ==
    IF \/ parse_list(a.rs_entry).raised # "none"
       \/ parse_list(a.cs_entry).raised # "none"
       \/ ~Float(a.rdrv_entry).ok
    THEN current
    ELSE IF rc_equivalent(parse_list(a.rs_entry).values, parse_list(a.cs_entry).values,
                          Whole(Float(a.rdrv_entry))).raised # "none"
    THEN current
    ELSE RcCurrent(rc_equivalent(parse_list(a.rs_entry).values,
                                 parse_list(a.cs_entry).values,
                                 Whole(Float(a.rdrv_entry))),
                   parse_list(a.rs_entry).values, parse_list(a.cs_entry).values,
                   Whole(Float(a.rdrv_entry)))

\* what the three writers put into the file
Spef(C_eq) == [kind |-> "spef", C_eq |-> C_eq]
Testbench(C_eq, Rdrv) == [kind |-> "testbench", C_eq |-> C_eq, Rdrv |-> Rdrv]
Deck(cur) ==
    [kind |-> "deck", Rs |-> cur.Rs, Cs |-> cur.Cs, Rdrv |-> cur.Rdrv,
     Req |-> rc_equivalent(cur.Rs, cur.Cs, cur.Rdrv).Req,
     Ceq |-> rc_equivalent(cur.Rs, cur.Cs, cur.Rdrv).Ceq]

CsTexts == { << >>, << Tok1("1") >>, << Tok1("1"), Tok1("2") >>, << Tok1("x") >> }
RsTexts == { << >>, << Tok1("1") >>, << Tok1("x") >> }
RdrvTexts == { Tok1("1"), Tok1("x") }

Entries(tool, cs, rs, rdrv) ==
    [none |-> FALSE, tool |-> tool, cs_entry |-> cs, rs_entry |-> rs,
     rdrv_entry |-> rdrv]

Cache(current) == [none |-> FALSE, current |-> current]

GuiInit ==
    /\ pc = "idle"
    /\ EngineIdle
    /\ \E tool \in { "lumped", "rc" }, cs \in CsTexts, rs \in RsTexts,
          rdrv \in RdrvTexts :
          args = Entries(tool, cs, rs, rdrv)
    /\ result = Cache(None)

GuiFrame ==
    UNCHANGED << file, linked_list, Rs, Cs, components, y, exact_result, model,
                 is_exact, used_fallback, error, calls, out_values >>

Edited ==
    /\ pc' = "edited"
    /\ UNCHANGED << result, out_netlist >>
    /\ GuiFrame

EditCs ==
    /\ \E t \in CsTexts \ { args.cs_entry } : args' = [args EXCEPT !.cs_entry = t]
    /\ Edited

EditRs ==
    /\ \E t \in RsTexts \ { args.rs_entry } : args' = [args EXCEPT !.rs_entry = t]
    /\ Edited

EditRdrv ==
    /\ \E t \in RdrvTexts \ { args.rdrv_entry } : args' = [args EXCEPT !.rdrv_entry = t]
    /\ Edited

\* the Compute button of either tool
ComputeTo(current) ==
    /\ result' = Cache(current)
    /\ pc' = "computed"
    /\ UNCHANGED << args, out_netlist >>
    /\ GuiFrame

LumpedCompute ==
    /\ args.tool = "lumped"
    /\ ComputeTo(LumpedComputed(result.current, args))

RcCompute ==
    /\ args.tool = "rc"
    /\ ComputeTo(RcComputed(result.current, args))

\* a save with `current` cached after the test of the first lines: nothing
\* cached, or the fields read at save time raise, or the dialog is cancelled,
\* or the write raises, or the file is written
SaveWith(current, fields_ok, content) ==
    /\ result' = Cache(current)
    /\ \/ /\ current.none \/ ~fields_ok
          /\ pc' = "not_saved"
          /\ UNCHANGED out_netlist
       \/ /\ ~current.none /\ fields_ok
          /\ \/ pc' = "cancelled" /\ UNCHANGED out_netlist
             \/ pc' = "save_error" /\ out_netlist' = WrittenFile(<< content >>, FALSE)
             \/ pc' = "saved" /\ out_netlist' = WrittenFile(<< content >>, TRUE)
    /\ UNCHANGED args
    /\ GuiFrame

OrComputed(current, computed) == IF current.none THEN computed ELSE current

\* Lumped-C.App.save_spef, lines 122-135
SaveSpefWith(current) ==
    SaveWith(current, Float(args.rdrv_entry).ok,
             IF current.none THEN None ELSE Spef(current.C_eq))

save_spef ==
    /\ args.tool = "lumped"
    /\ SaveSpefWith(OrComputed(result.current, LumpedComputed(result.current, args)))

\* Lumped-C.App.save_spice, lines 137-150
SaveTestbenchWith(current) ==
    SaveWith(current, Float(args.rdrv_entry).ok,
             IF current.none \/ ~Float(args.rdrv_entry).ok THEN None
             ELSE Testbench(current.C_eq, Whole(Float(args.rdrv_entry))))

save_spice ==
    /\ args.tool = "lumped"
    /\ SaveTestbenchWith(OrComputed(result.current, LumpedComputed(result.current, args)))

\* RC_Model.App.save_spice, lines 146-162
SaveDeckWith(current) ==
    SaveWith(current, TRUE, IF current.none THEN None ELSE Deck(current))

rc_save_spice ==
    /\ args.tool = "rc"
    /\ SaveDeckWith(OrComputed(result.current, RcComputed(result.current, args)))

GuiNext ==
    \/ EditCs
    \/ EditRs
    \/ EditRdrv
    \/ LumpedCompute
    \/ RcCompute
    \/ save_spef
    \/ save_spice
    \/ rc_save_spice

GuiSpec == GuiInit /\ [][GuiNext]_vars

JustSaved == pc = "saved"
SavedContent == out_netlist.lines[1]

\* what a compute on the entry fields as they are now gives
FreshLumped == LumpedComputed(None, args)
FreshRc == RcComputed(None, args)

FreshContent ==
    CASE SavedContent.kind = "spef" -> Spef(FreshLumped.C_eq)
      [] SavedContent.kind = "testbench" ->
            Testbench(FreshLumped.C_eq, Whole(Float(args.rdrv_entry)))
      [] OTHER -> Deck(FreshRc)

FieldsCompute == IF args.tool = "lumped" THEN ~FreshLumped.none ELSE ~FreshRc.none

\* C23: in both tools a save writes a file only if some compute has
\* succeeded, and what it writes is the result of the entry fields as they
\* are at the save: the fields compute, and the file holds their values.
C23_SaveIsFresh ==
    JustSaved =>
        /\ ~result.current.none
        /\ FieldsCompute
        /\ SavedContent = FreshContent

\* a file is written only with a result cached
SaveNeedsCompute == JustSaved => ~result.current.none

====
